---- MODULE Spec2Model ----
(***************************************************************************)
(* shm-rpc-bridge: the shared-memory transport (two mapped buffers, four   *)
(* named counting semaphores) and the RPC client and server built on it.   *)
(*                                                                         *)
(* SpecT : the transport alone; threads call the four byte-level           *)
(*         operations with arbitrary payloads.                             *)
(* Spec  : one RPCServer and client threads making RPCClient.call over     *)
(*         the same transport.                                             *)
(* SpecS : the stateful server, called by the clients in turn with no      *)
(*         timeout.                                                        *)
(* SpecL : creating, opening and closing transports, clients and the       *)
(*         server, with no traffic.                                        *)
(* SpecC : traffic while a transport is being closed.                      *)
(* SpecU : a process that ends, and util/cleanup_ipc.py.                   *)
(* SpecV : the server's start() loop, close() by another thread, signals;  *)
(*         SpecVF adds fairness of the loop and of the handler.            *)
(* SpecP : one client and the server, no wait expiring; SpecR adds the     *)
(*         expiry of the client's receive_response.                        *)
(* SpecE : a server whose methods return what cannot be sent.              *)
(* SpecH : two servers constructed and closed in one process.              *)
(* SpecG : the channel created anew while an opener holds the old one.     *)
(* SpecQ : the probe of _status() next to a client.                        *)
(***************************************************************************)
EXTENDS Integers, Sequences, FiniteSets, TLC

\* ---------------------------------------------------------------- constants

HEADER_SIZE == 4

\* buffer_size B chosen by the creator of the channel
BufferSize == 5

\* buffer_size of the channel the RPC endpoints use
RpcBufferSize == 7

\* number of RPCClient.call invocations (each draws a fresh request id)
MaxCalls == 2

Dirs == {"request", "response"}

\* the six kernel objects of a channel: two segments and four semaphores
Names == {"request", "response", "req_empty", "req_full", "resp_empty", "resp_full"}

\* the order in which _create_resources and _open_resources take them
Order == <<"request", "response", "req_empty", "req_full", "resp_empty", "resp_full">>

SendOps == {"send_request", "send_response"}

RecvOps == {"receive_request", "receive_response"}

Endpoints == {"srv", "c1", "c2"}

Threads == {"s", "a", "b"}

NoThread == "none"

ClientThreads == {"a", "b"}

\* payloads offered to send_X: one per length, every legal length 0..B-4 and the
\* first illegal one; the bytes of a payload differ from those of the other lengths
Payloads == {[i \in 1..n |-> n] : n \in 0..(BufferSize - HEADER_SIZE + 1)}

VARIABLES
    sem,      \* value of each of the four named semaphores
    buf,      \* contents of the two shared segments, one byte per cell
    linked,   \* the names of the channel that exist in the kernel
    hnd,      \* per transport instance: the objects it holds a handle of
    owner,    \* per transport instance: self.owner
    client,   \* per opener instance: the RPCClient around it
    bsize,    \* buffer_size of each transport instance
    ep,       \* the transport instance each thread uses
    impl,     \* per transport instance: the module its class comes from
    other,    \* the objects of other channels that exist in the kernel
    old,      \* the channel's previous objects, unlinked and still held by openers
    lock,     \* holder of each instance's RLock
    th,       \* per thread: the transport operation it is in
    pending,  \* per direction: payloads sent and not yet received (history)
    cl,       \* per client thread: the RPCClient.call it is in and its outcome
    srv,      \* the RPCServer: _running, transport, the request being handled
    nextId,   \* the next fresh request id
    invoked   \* the registered methods the server has invoked, in order (history)

chanVars == <<sem, buf, pending>>

confVars == <<bsize, ep, owner, client, impl, other, old>>

rpcVars == <<cl, srv, nextId, invoked, linked, hnd>>

vars == <<sem, buf, linked, hnd, owner, client, bsize, ep, impl, other, old, lock, th, pending, cl,
          srv, nextId, invoked>>

\* ------------------------------------------------------------ the transport

DirOf(op) == IF op \in {"send_request", "receive_request"} THEN "request" ELSE "response"

EmptySem(d) == IF d = "request" THEN "req_empty" ELSE "resp_empty"

FullSem(d) == IF d = "request" THEN "req_full" ELSE "resp_full"

\* every operation waits on the empty semaphore of its direction
WaitSemAlwaysEmpty(op) == EmptySem(DirOf(op))

\* the semaphore an operation waits on
WaitSem(op) == IF op \in SendOps THEN EmptySem(DirOf(op)) ELSE FullSem(DirOf(op))

\* every operation posts the full semaphore of its direction
PostSemAlwaysFull(op) == FullSem(DirOf(op))

\* the semaphore an operation posts
PostSem(op) == IF op \in SendOps THEN FullSem(DirOf(op)) ELSE EmptySem(DirOf(op))

\* struct.pack("I", n): four bytes, least significant first
Pack(n) == << n % 256, (n \div 256) % 256, (n \div 65536) % 256, (n \div 16777216) % 256 >>

\* struct.unpack("I", b)[0]
Unpack(b) == b[1] + 256 * b[2] + 65536 * b[3] + 16777216 * b[4]

\* the size check forgets the header
TooLargeNoHeader(data, bs) == Len(data) > bs

\* the size check that opens send_request / send_response
TooLarge(data, bs) == Len(data) > bs - HEADER_SIZE

\* the payload is written and the header is left as it was
WriteFrameNoHeader(b, data) ==
    [i \in 1..Len(b) |->
        IF i > HEADER_SIZE /\ i <= HEADER_SIZE + Len(data) THEN data[i - HEADER_SIZE] ELSE b[i]]

\* seek(0); write(pack(len)); write(data): the rest of the segment keeps its bytes
WriteFrame(b, data) ==
    [i \in 1..Len(b) |->
        IF i <= HEADER_SIZE THEN Pack(Len(data))[i]
        ELSE IF i <= HEADER_SIZE + Len(data) THEN data[i - HEADER_SIZE]
        ELSE b[i]]

\* seek(0); read(HEADER_SIZE); unpack
ReadSize(b) == Unpack(SubSeq(b, 1, HEADER_SIZE))

\* the receiver's validation of the header
InvalidSize(size, bs) == size < 0 \/ size > bs - HEADER_SIZE

\* read(size), the file position being right after the header: mmap.read stops at
\* the end of the mapping
ReadData(b, size) ==
    SubSeq(b, HEADER_SIZE + 1, IF HEADER_SIZE + size > Len(b) THEN Len(b) ELSE HEADER_SIZE + size)

\* a wait that does not block
CanAcquireNoWait(s) == TRUE

\* acquire(timeout) takes the semaphore when its value is positive
CanAcquire(s) == sem[s] > 0

\* acquire(timeout) raises BusyError when the value stays zero for the timeout
Expires(s) == sem[s] = 0

\* a thread outside the transport; res is the exception its last operation raised
\* and msg what the exception's message says
Idle == [pc |-> "idle", op |-> "none", data |-> <<>>, res |-> "none", ret |-> <<>>, msg |-> ""]

Raised(e, op) == [Idle EXCEPT !.res = e, !.op = op]

\* RPCTransportError(m) out of send_X(data) or receive_X()
Failed(op, data, m) == [Raised("Transport", op) EXCEPT !.data = data, !.msg = m]

InWait(op, data) ==
    [pc |-> "wait", op |-> op, data |-> data, res |-> "none", ret |-> <<>>, msg |-> ""]

\* the handles the operation asserts before it waits
Asserted(op) == {WaitSem(op), PostSem(op)}

\* one of them is None: the instance was closed
HandleIsNone(e, op) == ~(Asserted(op) \subseteq hnd[e])

\* `with self._lock` is entered: the RLock is free
TakeLock(t) ==
    /\ lock[ep[t]] = NoThread
    /\ lock' = [lock EXCEPT ![ep[t]] = t]

\* `with self._lock` is left
ReleaseLock(t) == lock' = [lock EXCEPT ![ep[t]] = NoThread]

\* the wait is passed without taking a unit of the semaphore
AcquireWithoutTaking(t) ==
    /\ th[t].pc = "wait"
    /\ CanAcquire(WaitSem(th[t].op))
    /\ th' = [th EXCEPT ![t].pc = "copy"]
    /\ UNCHANGED <<sem, buf, pending, lock, confVars, rpcVars>>

\* the semaphore wait succeeds
Acquire(t) ==
    /\ th[t].pc = "wait"
    /\ CanAcquire(WaitSem(th[t].op))
    /\ sem' = [sem EXCEPT ![WaitSem(th[t].op)] = @ - 1]
    /\ th' = [th EXCEPT ![t].pc = "copy"]
    /\ UNCHANGED <<buf, pending, lock, confVars, rpcVars>>

\* the wait expires and the operation's semaphore is posted all the same
WaitExpiresPosting(t) ==
    /\ th[t].pc = "wait"
    /\ Expires(WaitSem(th[t].op))
    /\ ReleaseLock(t)
    /\ sem' = [sem EXCEPT ![PostSem(th[t].op)] = @ + 1]
    /\ UNCHANGED <<buf, pending, confVars>>

\* the semaphore wait expires: BusyError, nothing was taken, the lock is released
WaitExpires(t) ==
    /\ th[t].pc = "wait"
    /\ Expires(WaitSem(th[t].op))
    /\ ReleaseLock(t)
    /\ UNCHANGED <<chanVars, confVars>>

\* the sender writes header and payload into the mapped segment
SendWrite(t) ==
    /\ th[t].pc = "copy"
    /\ th[t].op \in SendOps
    /\ buf' = [buf EXCEPT ![DirOf(th[t].op)] = WriteFrame(@, th[t].data)]
    /\ th' = [th EXCEPT ![t].pc = "post"]
    /\ UNCHANGED <<sem, pending, lock, confVars, rpcVars>>

\* the part of the segment the thread's instance has mapped: mmap(fd, self.buffer_size)
Mapped(t) == SubSeq(buf[DirOf(th[t].op)], 1, bsize[ep[t]])

\* receive_X of the module checks the size it has read; the class of
\* shm_rpc_bridge/transport.py reads the payload without a check
Validates(m) == m = "_internal.transport"

\* the size the receiver finds in the header is rejected
HeaderRejected(t) ==
    Validates(impl[ep[t]]) /\ InvalidSize(ReadSize(Mapped(t)), bsize[ep[t]])

\* the payload the receiver copies out of the segment
FrameRead(t) == ReadData(Mapped(t), ReadSize(Mapped(t)))

\* the sender posts the full semaphore and leaves the lock
PostFull(t) ==
    /\ th[t].pc = "post"
    /\ th[t].op \in SendOps
    /\ sem' = [sem EXCEPT ![PostSem(th[t].op)] = @ + 1]
    /\ pending' = [pending EXCEPT ![DirOf(th[t].op)] = Append(@, th[t].data)]
    /\ ReleaseLock(t)
    /\ UNCHANGED <<buf, confVars>>

\* the receiver leaves without posting the empty semaphore
PostEmptyForgotten(t) ==
    /\ th[t].pc = "post"
    /\ th[t].op \in RecvOps
    /\ pending' = [pending EXCEPT ![DirOf(th[t].op)] = IF @ = <<>> THEN @ ELSE Tail(@)]
    /\ ReleaseLock(t)
    /\ UNCHANGED <<sem, buf, confVars>>

\* the receiver posts the empty semaphore and leaves the lock
PostEmpty(t) ==
    /\ th[t].pc = "post"
    /\ th[t].op \in RecvOps
    /\ sem' = [sem EXCEPT ![PostSem(th[t].op)] = @ + 1]
    /\ pending' = [pending EXCEPT ![DirOf(th[t].op)] = IF @ = <<>> THEN @ ELSE Tail(@)]
    /\ ReleaseLock(t)
    /\ UNCHANGED <<buf, confVars>>

\* the assert on a handle fails under the lock: the AssertionError is caught by
\* `except Exception` and raised again as RPCTransportError("Failed to ...: ")
AssertFails(t, op, data) ==
    /\ lock[ep[t]] = NoThread
    /\ th' = [th EXCEPT ![t] = Failed(op, data, "Failed: ")]
    /\ UNCHANGED lock

\* ------------------------------------------------- the transport on its own

\* the operations each thread calls: the creator's side and the openers' side
OpsOf(t) ==
    IF t = "s" THEN {"receive_request", "send_response"}
    ELSE {"send_request", "receive_response"}

\* send_X(data) up to the wait: the size check, then `with self._lock`
SendBegin(t, op, data) ==
    /\ th[t].pc = "idle"
    /\ IF TooLarge(data, bsize[ep[t]])
       THEN /\ th' = [th EXCEPT ![t] = Failed(op, data, "Message too large")]
            /\ UNCHANGED lock
       ELSE IF HandleIsNone(ep[t], op)
            THEN AssertFails(t, op, data)
            ELSE /\ TakeLock(t)
                 /\ th' = [th EXCEPT ![t] = InWait(op, data)]
    /\ UNCHANGED <<chanVars, confVars, rpcVars>>

\* receive_X() up to the wait: `with self._lock`
RecvBegin(t, op) ==
    /\ th[t].pc = "idle"
    /\ IF HandleIsNone(ep[t], op)
       THEN AssertFails(t, op, <<>>)
       ELSE /\ TakeLock(t)
            /\ th' = [th EXCEPT ![t] = InWait(op, <<>>)]
    /\ UNCHANGED <<chanVars, confVars, rpcVars>>

\* a caller invokes send_request or send_response with some payload
CallSend(t) == \E op \in SendOps \cap OpsOf(t), data \in Payloads : SendBegin(t, op, data)

\* a caller invokes receive_request or receive_response
CallRecv(t) == \E op \in RecvOps \cap OpsOf(t) : RecvBegin(t, op)

\* the operation fails with RPCTimeoutError
Timeout(t) ==
    /\ WaitExpires(t)
    /\ th' = [th EXCEPT ![t] = Raised("Timeout", th[t].op)]
    /\ UNCHANGED rpcVars

\* the receiver reads the header, validates it and copies the payload out
RecvRead(t) ==
    /\ th[t].pc = "copy"
    /\ th[t].op \in RecvOps
    /\ IF HeaderRejected(t)
       THEN /\ th' = [th EXCEPT ![t] = Failed(th[t].op, <<>>, "Failed: Invalid message size")]
            /\ ReleaseLock(t)
       ELSE /\ th' = [th EXCEPT ![t].pc = "post", ![t].ret = FrameRead(t)]
            /\ UNCHANGED lock
    /\ UNCHANGED <<chanVars, confVars, rpcVars>>

\* send_X returns
SendPost(t) ==
    /\ PostFull(t)
    /\ th' = [th EXCEPT ![t] = Idle]
    /\ UNCHANGED rpcVars

\* receive_X returns the payload
RecvPost(t) ==
    /\ PostEmpty(t)
    /\ th' = [th EXCEPT ![t] = Idle]
    /\ UNCHANGED rpcVars

\* every closing instance unlinks what it holds
UnlinkedByAnyone(own, held) == held

\* the owner unlinks the six names, whether it still holds them or not
UnlinkedByName(own, held) == IF own THEN Names ELSE {}

\* the names close() unlinks: those the instance holds a handle of, if it is the owner
UnlinkedBy(own, held) == IF own THEN held ELSE {}

Unlinks(e) == UnlinkedBy(owner[e], hnd[e])

\* all four semaphores are created with the value 1
FreshSemAllOne == [n \in Names \ Dirs |-> 1]

\* the semaphores as _create_resources initialises them
FreshSem == [n \in Names \ Dirs |-> IF n \in {"req_empty", "resp_empty"} THEN 1 ELSE 0]

\* the segments as _create_resources sizes them
FreshBuf(bs) == [d \in Dirs |-> [i \in 1..bs |-> 0]]

\* no objects of the channel are left from before its creation
NoObjects == [sem |-> <<>>, buf |-> <<>>, pending |-> [d \in Dirs |-> <<>>], att |-> {}]

\* the channel right after SharedMemoryTransport.create(name, bs)
InitChannel(bs) ==
    /\ sem = FreshSem
    /\ buf = FreshBuf(bs)
    /\ linked = Names
    /\ hnd = [e \in Endpoints |-> Names]
    /\ owner = [e \in Endpoints |-> e = "srv"]
    /\ client = [e \in Endpoints \ {"srv"} |-> "open"]
    /\ bsize = [e \in Endpoints |-> bs]
    /\ impl = [e \in Endpoints |-> "_internal.transport"]
    /\ other = {}
    /\ old = NoObjects
    /\ lock = [e \in Endpoints |-> NoThread]
    /\ pending = [d \in Dirs |-> <<>>]
    /\ ep \in {f \in [Threads -> Endpoints] :
                  f["s"] = "srv" /\ f["a"] = "c1" /\ f["b"] \in {"c1", "c2"}}
    /\ th = [t \in Threads |-> Idle]

\* a client thread outside call(); out is how its last call ended
NoCall == [pc |-> "idle", rid |-> 0, out |-> "none", got |-> 0, val |-> <<>>, err |-> "None"]

NoRequest == [ok |-> FALSE]

\* the registry of the calculator test server, with __running__
CalculatorMethods == {"__running__", "add", "divide"}

\* the registry of the stateful test server, with __running__
AccumulatorMethods == {"__running__", "accumulate"}

\* a registry with a method returning a long text and one returning an object
EchoMethods == {"__running__", "add", "echo", "opener"}

\* no second RPCServer object in the process: no transport, no handlers saved
NoServer == [transport |-> "None", started |-> FALSE, prev |-> "default"]

\* a constructed server with the methods ms registered, and clients outside call()
InitRpcWith(ms) ==
    /\ cl = [t \in ClientThreads |-> NoCall]
    /\ srv = [running |-> FALSE, transport |-> "open", request |-> NoRequest, raised |-> "none",
              started |-> TRUE, handler |-> "server", prev |-> "default",
              methods |-> ms, totals |-> 0, instart |-> FALSE, signal |-> "none",
              second |-> NoServer]
    /\ nextId = 1
    /\ invoked = <<>>

InitRpc == InitRpcWith(CalculatorMethods)

InitT == InitChannel(BufferSize) /\ InitRpc

NextT ==
    \E t \in Threads :
        \/ CallSend(t)
        \/ CallRecv(t)
        \/ Acquire(t)
        \/ Timeout(t)
        \/ SendWrite(t)
        \/ RecvRead(t)
        \/ SendPost(t)
        \/ RecvPost(t)

SpecT == InitT /\ [][NextT]_vars

\* ------------------------------------------------------------------ the codec

\* the server's registry (self.methods)
Registered == srv.methods

\* the calls the client threads make, (method, param): those of the stateful test
\* against the stateful server, those of the calculator tests otherwise
Calls ==
    IF "accumulate" \in Registered
    THEN { <<"accumulate", 1>>, <<"accumulate", 2>> }
    ELSE IF "echo" \in Registered
    THEN { <<"add", 1>>, <<"echo", 1>>, <<"opener", 1>> }
    ELSE { <<"add", 1>>, <<"divide", 0>>, <<"nope", 1>> }

MethodNames == <<"add", "divide", "nope", "__running__", "accumulate", "echo", "opener">>

\* a text whose encoded response is one byte longer than the buffer can frame
LongText == 98

\* an object the codec has no encoding for
Unencodable == 99

\* the bytes the encoding of a result takes beyond those of a number
Extra(v) == IF v = LongText THEN RpcBufferSize - HEADER_SIZE - 2 ELSE 0

ErrorNames == <<"RPCError: Unknown method", "ValueError: Division by zero", "Decode:">>

\* the position of x in the sequence xs, 0 when it is not there
IndexOf(xs, x) == IF \E i \in 1..Len(xs) : xs[i] = x
                  THEN CHOOSE i \in 1..Len(xs) : xs[i] = x ELSE 0

\* bytes that are no encoded request
Garbage == <<>>

\* encode_request: request_id, method, params
EncodeRequest(r) == << r.request_id, IndexOf(MethodNames, r.method), r.param >>

\* decode_request: fails (ok = FALSE) on bytes that are no encoded request
DecodeRequest(b) ==
    IF Len(b) = 3 /\ b[2] \in 1..Len(MethodNames)
    THEN [ok |-> TRUE, request_id |-> b[1], method |-> MethodNames[b[2]], param |-> b[3]]
    ELSE [ok |-> FALSE]

\* encode_response: request_id, result (<<>> is null), error ("None" is null)
EncodeResponse(r) ==
    << r.request_id,
       IF r.result = <<>> THEN 0 ELSE r.result[1],
       IndexOf(ErrorNames, r.error) >>
    \o [i \in 1..(IF r.result = <<>> THEN 0 ELSE Extra(r.result[1])) |-> 0]

\* encode_response fails: the result holds a value of no supported kind
EncodeFails(r) == r.result = << Unencodable >>

\* decode_response: fails (ok = FALSE) on bytes that are no encoded response
DecodeResponse(b) ==
    IF Len(b) >= 3 /\ Len(b) = 3 + Extra(b[2]) /\ b[3] \in 0..Len(ErrorNames)
    THEN [ok |-> TRUE, request_id |-> b[1],
          result |-> IF b[2] = 0 THEN <<>> ELSE << b[2] >>,
          error |-> IF b[3] = 0 THEN "None" ELSE ErrorNames[b[3]]]
    ELSE [ok |-> FALSE]

\* ----------------------------------------------------------------- the server

\* the registered method raises on these params (divide by zero)
MethodRaises(method, param) == method = "divide" /\ param = 0

\* accumulate forgets what it had added up
TotalsForgotten(method, param) ==
    IF method = "accumulate" THEN param ELSE srv.totals

\* the totals kept by the stateful server after the call
TotalsAfter(method, param) ==
    IF method = "accumulate" THEN srv.totals + param ELSE srv.totals

\* what the registered method returns
MethodResult(method, param) ==
    IF method = "add" THEN param + 1
    ELSE IF method = "divide" THEN 2 \div param
    ELSE IF method = "accumulate" THEN TotalsAfter(method, param)
    ELSE IF method = "echo" THEN LongText
    ELSE IF method = "opener" THEN Unencodable
    ELSE 1

\* a failure of the dispatch is answered as a success
DispatchNoError(req) ==
    IF req.method \in Registered /\ ~MethodRaises(req.method, req.param)
    THEN [request_id |-> req.request_id,
          result |-> << MethodResult(req.method, req.param) >>, error |-> "None"]
    ELSE [request_id |-> req.request_id, result |-> <<>>, error |-> "None"]

\* _handle_request from the lookup to the response record
Dispatch(req) ==
    IF req.method \notin Registered
    THEN [request_id |-> req.request_id, result |-> <<>>,
          error |-> "RPCError: Unknown method"]
    ELSE IF MethodRaises(req.method, req.param)
    THEN [request_id |-> req.request_id, result |-> <<>>,
          error |-> "ValueError: Division by zero"]
    ELSE [request_id |-> req.request_id,
          result |-> << MethodResult(req.method, req.param) >>, error |-> "None"]

\* the method calls the server makes for a request
Invocations(req) ==
    IF req.method \in Registered THEN << <<req.method, req.param>> >> ELSE <<>>

\* stop() leaves the server's handlers installed
StopKeepsHandlers(s) == [s EXCEPT !.started = FALSE]

\* _SignalHandler.stop(): restores the saved handlers if it was started
Stop(s) == IF s.started THEN [s EXCEPT !.started = FALSE, !.handler = s.prev] ELSE s

\* start(): _running = True, and the loop is entered
ServerStart ==
    /\ ~srv.running
    /\ ~srv.instart
    /\ srv.transport # "None"
    /\ srv' = [srv EXCEPT !.running = TRUE, !.instart = TRUE]
    /\ UNCHANGED <<chanVars, confVars, lock, th, cl, nextId, invoked, linked, hnd>>

\* an exception leaves start(): its finally runs close(), which sets _running to
\* False, closes the creator's transport (unlinking the six names) and drops it
ServerRaise(e) ==
    /\ srv' = Stop([srv EXCEPT !.running = FALSE, !.transport = "None", !.request = NoRequest,
                               !.raised = e, !.instart = FALSE])
    /\ linked' = linked \ Unlinks("srv")
    /\ hnd' = [hnd EXCEPT !["srv"] = {}]
    /\ th' = [th EXCEPT !["s"] = Idle]

\* while self._running: _handle_request() -> transport.receive_request()
ServerReceive ==
    /\ srv.running
    /\ th["s"].pc = "idle"
    /\ TakeLock("s")
    /\ th' = [th EXCEPT !["s"] = InWait("receive_request", <<>>)]
    /\ UNCHANGED <<chanVars, confVars, rpcVars>>

\* the RPCTimeoutError of receive_request leaves start()
ServerRecvTimeoutRaises ==
    /\ th["s"].op = "receive_request"
    /\ WaitExpires("s")
    /\ ServerRaise("RPCTimeoutError")
    /\ UNCHANGED <<cl, nextId, invoked>>

\* _receive_request returns None on RPCTimeoutError: the loop goes round
ServerRecvTimeout ==
    /\ th["s"].op = "receive_request"
    /\ WaitExpires("s")
    /\ th' = [th EXCEPT !["s"] = Idle]
    /\ UNCHANGED rpcVars

\* the server reads the request frame
ServerRecvRead ==
    /\ th["s"].pc = "copy"
    /\ th["s"].op = "receive_request"
    /\ IF HeaderRejected("s")
       THEN /\ ServerRaise("RPCTransportError")
            /\ ReleaseLock("s")
            /\ UNCHANGED <<cl, nextId, invoked>>
       ELSE /\ th' = [th EXCEPT !["s"].pc = "post", !["s"].ret = FrameRead("s")]
            /\ UNCHANGED <<lock, rpcVars>>
    /\ UNCHANGED <<chanVars, confVars>>

\* receive_request returns; decode_request, lookup, call, encode_response
ServerHandle ==
    /\ th["s"].op = "receive_request"
    /\ PostEmpty("s")
    /\ LET req == DecodeRequest(th["s"].ret)
       IN  IF ~req.ok
           THEN /\ ServerRaise("RPCSerializationError")
                /\ UNCHANGED invoked
           ELSE IF EncodeFails(Dispatch(req))
           THEN /\ invoked' = invoked \o Invocations(req)
                /\ ServerRaise("RPCSerializationError")
           ELSE /\ invoked' = invoked \o Invocations(req)
                /\ srv' = [srv EXCEPT !.request = req,
                                      !.totals = IF req.method \in Registered
                                                 THEN TotalsAfter(req.method, req.param)
                                                 ELSE srv.totals]
                /\ th' = [th EXCEPT !["s"] =
                            [pc |-> "ready", op |-> "send_response",
                             data |-> EncodeResponse(Dispatch(req)),
                             res |-> "none", ret |-> <<>>, msg |-> ""]]
                /\ UNCHANGED <<linked, hnd>>
    /\ UNCHANGED <<cl, nextId>>

\* transport.send_response(response_data) up to the wait
ServerRespond ==
    /\ th["s"].pc = "ready"
    /\ IF TooLarge(th["s"].data, bsize[ep["s"]])
       THEN /\ ServerRaise("RPCTransportError")
            /\ UNCHANGED lock
       ELSE /\ TakeLock("s")
            /\ th' = [th EXCEPT !["s"].pc = "wait"]
            /\ UNCHANGED <<srv, linked, hnd>>
    /\ UNCHANGED <<chanVars, confVars, cl, nextId, invoked>>

\* the timed-out send_response is tried again
ServerSendTimeoutRetry ==
    /\ th["s"].op = "send_response"
    /\ WaitExpires("s")
    /\ th' = [th EXCEPT !["s"].pc = "ready"]
    /\ UNCHANGED <<cl, srv, nextId, invoked, linked, hnd>>

\* RPCTimeoutError in send_response is logged and raised again
ServerSendTimeout ==
    /\ th["s"].op = "send_response"
    /\ WaitExpires("s")
    /\ ServerRaise("RPCTimeoutError")
    /\ UNCHANGED <<cl, nextId, invoked>>

\* send_response returns: _handle_request is over, the loop goes round
ServerSendPost ==
    /\ PostFull("s")
    /\ th' = [th EXCEPT !["s"] = Idle]
    /\ srv' = [srv EXCEPT !.request = NoRequest]
    /\ UNCHANGED <<cl, nextId, invoked, linked, hnd>>

\* ----------------------------------------------------------------- the client

\* the id check is left out
CallOutcomeNoIdCheck(rid, bytes) ==
    LET r == DecodeResponse(bytes)
    IN  IF ~r.ok
        THEN [NoCall EXCEPT !.rid = rid, !.out = "RPCSerializationError"]
        ELSE IF r.error # "None"
        THEN [NoCall EXCEPT !.rid = rid, !.out = "RPCMethodError",
                            !.got = r.request_id, !.err = r.error]
        ELSE [NoCall EXCEPT !.rid = rid, !.out = "result",
                            !.got = r.request_id, !.val = r.result]

\* call() from decode_response to its return or raise
CallOutcome(rid, bytes) ==
    LET r == DecodeResponse(bytes)
    IN  IF ~r.ok
        THEN [NoCall EXCEPT !.rid = rid, !.out = "RPCSerializationError"]
        ELSE IF r.request_id # rid
        THEN [NoCall EXCEPT !.rid = rid, !.out = "RPCError", !.got = r.request_id]
        ELSE IF r.error # "None"
        THEN [NoCall EXCEPT !.rid = rid, !.out = "RPCMethodError",
                            !.got = r.request_id, !.err = r.error]
        ELSE [NoCall EXCEPT !.rid = rid, !.out = "result",
                            !.got = r.request_id, !.val = r.result]

\* a thread is free to start a call
AtRest(t) == cl[t].pc = "idle" /\ th[t].pc = "idle"

\* call(method, **params) up to the wait of send_request
ClientCall(t) ==
    \E c \in Calls :
        /\ AtRest(t)
        /\ nextId <= MaxCalls
        /\ nextId' = nextId + 1
        /\ LET data == EncodeRequest([request_id |-> nextId, method |-> c[1], param |-> c[2]])
           IN  IF client[ep[t]] = "closed"
               THEN /\ cl' = [cl EXCEPT ![t] = [NoCall EXCEPT !.rid = nextId,
                                                              !.out = "AttributeError"]]
                    /\ UNCHANGED <<lock, th>>
               ELSE IF TooLarge(data, bsize[ep[t]])
               THEN /\ cl' = [cl EXCEPT ![t] = [NoCall EXCEPT !.rid = nextId,
                                                              !.out = "RPCTransportError"]]
                    /\ UNCHANGED <<lock, th>>
               ELSE /\ TakeLock(t)
                    /\ th' = [th EXCEPT ![t] = InWait("send_request", data)]
                    /\ cl' = [cl EXCEPT ![t] = [NoCall EXCEPT !.pc = "call", !.rid = nextId]]
        /\ UNCHANGED <<chanVars, confVars, srv, invoked, linked, hnd>>

\* transport.send_request(bytes) with bytes that are no request, outside any call
ClientSendRaw(t) ==
    /\ AtRest(t)
    /\ TakeLock(t)
    /\ th' = [th EXCEPT ![t] = InWait("send_request", Garbage)]
    /\ cl' = [cl EXCEPT ![t] = [NoCall EXCEPT !.pc = "raw"]]
    /\ UNCHANGED <<chanVars, confVars, srv, nextId, invoked, linked, hnd>>

\* a wait of the client expires: RPCTimeoutError leaves call()
ClientTimeout(t) ==
    /\ WaitExpires(t)
    /\ th' = [th EXCEPT ![t] = Idle]
    /\ cl' = [cl EXCEPT ![t].pc = "idle", ![t].out = "RPCTimeoutError"]
    /\ UNCHANGED <<srv, nextId, invoked, linked, hnd>>

\* send_request returns
ClientSendPost(t) ==
    /\ PostFull(t)
    /\ th' = [th EXCEPT ![t] = Idle]
    /\ cl' = [cl EXCEPT ![t].pc = IF cl[t].pc = "raw" THEN "idle" ELSE "sent"]
    /\ UNCHANGED <<srv, nextId, invoked, linked, hnd>>

\* transport.receive_response() up to the wait
ClientReceive(t) ==
    /\ cl[t].pc = "sent"
    /\ TakeLock(t)
    /\ th' = [th EXCEPT ![t] = InWait("receive_response", <<>>)]
    /\ cl' = [cl EXCEPT ![t].pc = "call"]
    /\ UNCHANGED <<chanVars, confVars, srv, nextId, invoked, linked, hnd>>

\* the client reads the response frame
ClientRecvRead(t) ==
    /\ th[t].pc = "copy"
    /\ th[t].op = "receive_response"
    /\ IF HeaderRejected(t)
       THEN /\ th' = [th EXCEPT ![t] = Idle]
            /\ cl' = [cl EXCEPT ![t].pc = "idle", ![t].out = "RPCTransportError"]
            /\ ReleaseLock(t)
       ELSE /\ th' = [th EXCEPT ![t].pc = "post", ![t].ret = FrameRead(t)]
            /\ UNCHANGED <<lock, cl>>
    /\ UNCHANGED <<chanVars, confVars, srv, nextId, invoked, linked, hnd>>

\* receive_response returns; decode_response, the id check, the error check
ClientReturn(t) ==
    /\ PostEmpty(t)
    /\ th' = [th EXCEPT ![t] = Idle]
    /\ cl' = [cl EXCEPT ![t] = CallOutcome(cl[t].rid, th[t].ret)]
    /\ UNCHANGED <<srv, nextId, invoked, linked, hnd>>

Init == InitChannel(RpcBufferSize) /\ InitRpc

Next ==
    \/ ServerStart
    \/ ServerReceive
    \/ ServerRecvTimeout
    \/ ServerRecvRead
    \/ ServerHandle
    \/ ServerRespond
    \/ ServerSendTimeout
    \/ ServerSendPost
    \/ Acquire("s")
    \/ SendWrite("s")
    \/ \E t \in ClientThreads :
          \/ ClientCall(t)
          \/ ClientSendRaw(t)
          \/ Acquire(t)
          \/ ClientTimeout(t)
          \/ SendWrite(t)
          \/ ClientSendPost(t)
          \/ ClientReceive(t)
          \/ ClientRecvRead(t)
          \/ ClientReturn(t)

Spec == Init /\ [][Next]_vars

\* --------------------------------------- calls one after the other, no timeout

\* a call is issued while no other call is going on
SeqCall(t) ==
    /\ \A u \in ClientThreads : cl[u].pc = "idle"
    /\ ClientCall(t)

InitS == InitChannel(RpcBufferSize) /\ InitRpcWith(AccumulatorMethods)

\* the stateful server and one or two clients calling it in turn; no wait of a
\* client or of send_response expires
NextS ==
    \/ ServerStart
    \/ ServerReceive
    \/ ServerRecvTimeout
    \/ ServerRecvRead
    \/ ServerHandle
    \/ ServerRespond
    \/ ServerSendPost
    \/ Acquire("s")
    \/ SendWrite("s")
    \/ \E t \in ClientThreads :
          \/ SeqCall(t)
          \/ Acquire(t)
          \/ SendWrite(t)
          \/ ClientSendPost(t)
          \/ ClientReceive(t)
          \/ ClientRecvRead(t)
          \/ ClientReturn(t)

SpecS == InitS /\ [][NextS]_vars

\* --------------------------------------------- creating, opening and closing

\* the buffer sizes given to open: the creator's, a smaller and a larger one
Sizes == {BufferSize - 1, BufferSize, BufferSize + 1}

\* the buffer sizes given to create
CreateSizes == {BufferSize}

\* the place in Order of the first object that is in S, past the end if none is
FirstIn(S) ==
    IF \E i \in 1..Len(Order) : Order[i] \in S
    THEN CHOOSE i \in 1..Len(Order) :
            Order[i] \in S /\ \A j \in 1..(i - 1) : Order[j] \notin S
    ELSE Len(Order) + 1

\* the objects that come before place k
Before(k) == {Order[i] : i \in 1..(k - 1)}

\* O_CREX fails on a name that exists
CreateFails(lk) == FirstIn(lk) <= Len(Order)

\* the objects _create_resources has created when it returns or raises
Created(lk) == Before(FirstIn(lk))

\* mmap of more bytes than the segment has fails
MmapFails(bs) == bs > Len(buf["request"])

\* the names are not looked up: opening fails at the mmap only
OpenFailsAtMmapOnly(lk, bs) == MmapFails(bs)

\* opening fails on a name that does not exist, and at the mmap
OpenFails(lk, bs) == FirstIn(Names \ lk) <= Len(Order) \/ MmapFails(bs)

\* the objects _open_resources holds a handle of when it returns or raises
Opened(lk, bs) ==
    IF Dirs \subseteq lk /\ MmapFails(bs) THEN Dirs ELSE Before(FirstIn(Names \ lk))

\* an operation outside send and receive has returned
Done(op) == [Idle EXCEPT !.op = op, !.res = "ok"]

\* the rollback is left out
FailedCreateKeeps(held) == {}

\* the rollback unlinks all six names, whoever created them
FailedCreateUnlinksAll(held) == Names

\* _initialize: close() after _create_resources raised, unlinking what it created
FailedCreateUnlinks(held) == UnlinkedBy(TRUE, held)

\* SharedMemoryTransport(name, bs, create=True) on the instance e, by thread t
Creating(t, e, bs) ==
    /\ hnd[e] = {}
    /\ lock[e] = NoThread
    /\ owner' = [owner EXCEPT ![e] = TRUE]
    /\ bsize' = [bsize EXCEPT ![e] = bs]
    /\ IF CreateFails(linked)
       THEN /\ linked' = (linked \cup Created(linked)) \ FailedCreateUnlinks(Created(linked))
            /\ hnd' = [hnd EXCEPT ![e] = {}]
            /\ th' = [th EXCEPT ![t] = Raised("Transport", "create")]
            /\ UNCHANGED <<sem, buf, pending>>
       ELSE /\ linked' = Names
            /\ hnd' = [hnd EXCEPT ![e] = Names]
            /\ sem' = FreshSem
            /\ buf' = FreshBuf(bs)
            /\ pending' = [d \in Dirs |-> <<>>]
            /\ th' = [th EXCEPT ![t] = Done("create")]
    /\ UNCHANGED <<ep, impl, other, old, lock>>

\* close() goes ahead while another thread is inside an operation
ClosingUnlocked(e) ==
    /\ linked' = linked \ Unlinks(e)
    /\ hnd' = [hnd EXCEPT ![e] = {}]

\* close() of the instance e: handles released, names unlinked by the owner
Closing(e) ==
    /\ lock[e] = NoThread
    /\ linked' = linked \ Unlinks(e)
    /\ hnd' = [hnd EXCEPT ![e] = {}]

\* SharedMemoryTransport.create(name, bs) by a thread other than the server's
TransportCreate(t) ==
    \E bs \in CreateSizes :
        /\ Creating(t, ep[t], bs)
        /\ client' = [client EXCEPT ![ep[t]] = "none"]
        /\ UNCHANGED <<cl, srv, nextId, invoked>>

\* SharedMemoryTransport.open(name, bs), also as RPCClient(name, bs) does it
TransportOpen(t) ==
    \E bs \in Sizes :
        /\ hnd[ep[t]] = {}
        /\ lock[ep[t]] = NoThread
        /\ owner' = [owner EXCEPT ![ep[t]] = FALSE]
        /\ bsize' = [bsize EXCEPT ![ep[t]] = bs]
        /\ linked' = linked \ UnlinkedBy(FALSE, Opened(linked, bs))
        /\ IF OpenFails(linked, bs)
           THEN /\ hnd' = [hnd EXCEPT ![ep[t]] = {}]
                /\ client' = [client EXCEPT ![ep[t]] = "none"]
                /\ th' = [th EXCEPT ![t] = Raised("Transport", "open")]
           ELSE /\ hnd' = [hnd EXCEPT ![ep[t]] = Opened(linked, bs)]
                /\ client' = [client EXCEPT ![ep[t]] = "open"]
                /\ th' = [th EXCEPT ![t] = Done("open")]
        /\ UNCHANGED <<chanVars, ep, impl, other, old, lock, cl, srv, nextId, invoked>>

\* transport.close() by a thread other than the server's
TransportClose(t) ==
    /\ Closing(ep[t])
    /\ th' = [th EXCEPT ![t] = Done("close")]
    /\ UNCHANGED <<chanVars, confVars, lock, cl, srv, nextId, invoked>>

\* RPCClient.close(): self.transport.close(), then transport and codec are None
ClientClose(t) ==
    /\ client[ep[t]] # "none"
    /\ IF client[ep[t]] = "open"
       THEN /\ Closing(ep[t])
            /\ client' = [client EXCEPT ![ep[t]] = "closed"]
            /\ th' = [th EXCEPT ![t] = Done("client.close")]
       ELSE /\ th' = [th EXCEPT ![t] = Raised("AttributeError", "client.close")]
            /\ UNCHANGED <<linked, hnd, client>>
    /\ UNCHANGED <<chanVars, bsize, ep, impl, other, old, owner, lock, cl, srv, nextId, invoked>>

\* RPCClient.call on a client that was closed
CallClosed(t) ==
    /\ client[ep[t]] = "closed"
    /\ ClientCall(t)

\* RPCServer(name, bs): the signal handlers, then the transport and the registry
ServerNew ==
    \E bs \in CreateSizes :
        /\ srv.transport = "None"
        /\ Creating("s", "srv", bs)
        /\ srv' = [srv EXCEPT !.started = TRUE, !.handler = "server", !.prev = srv.handler,
                              !.running = FALSE, !.raised = "none",
                              !.transport = IF CreateFails(linked) THEN "None" ELSE "open",
                              !.methods = IF CreateFails(linked) THEN {} ELSE CalculatorMethods]
        /\ UNCHANGED <<client, cl, nextId, invoked>>

\* RPCServer.close()
ServerClose ==
    /\ lock["srv"] = NoThread
    /\ IF srv.transport # "None"
       THEN Closing("srv")
       ELSE UNCHANGED <<linked, hnd>>
    /\ srv' = Stop([srv EXCEPT !.running = FALSE, !.transport = "None"])
    /\ th' = [th EXCEPT !["s"] = Done("server.close")]
    /\ UNCHANGED <<chanVars, confVars, lock, cl, nextId, invoked>>

\* the process installs handlers of its own for SIGTERM and SIGINT
InstallHandler ==
    /\ srv.handler = "default"
    /\ th["s"].op = "server.close"
    /\ srv' = [srv EXCEPT !.handler = "other"]
    /\ th' = [th EXCEPT !["s"] = Done("signal.signal")]
    /\ UNCHANGED <<chanVars, confVars, lock, cl, nextId, invoked, linked, hnd>>

\* no transport, no server and no client yet; under the name there is nothing, or
\* one object left behind, or the channel of another process with a request in it
InitL ==
    /\ linked \in {{}, Names} \cup {{n} : n \in Names}
    /\ sem = IF linked = Names
             THEN [FreshSem EXCEPT !["req_empty"] = 0, !["req_full"] = 1]
             ELSE FreshSem
    /\ buf = IF linked = Names
             THEN [FreshBuf(BufferSize) EXCEPT
                      !["request"] = WriteFrame(FreshBuf(BufferSize)["request"], <<1>>)]
             ELSE FreshBuf(BufferSize)
    /\ pending = [d \in Dirs |-> IF linked = Names /\ d = "request" THEN << <<1>> >> ELSE <<>>]
    /\ hnd = [e \in Endpoints |-> {}]
    /\ owner = [e \in Endpoints |-> FALSE]
    /\ client = [e \in Endpoints \ {"srv"} |-> "none"]
    /\ bsize = [e \in Endpoints |-> BufferSize]
    /\ impl = [e \in Endpoints |-> "_internal.transport"]
    /\ other = {}
    /\ old = NoObjects
    /\ lock = [e \in Endpoints |-> NoThread]
    /\ ep = [t \in Threads |-> IF t = "s" THEN "srv" ELSE IF t = "a" THEN "c1" ELSE "c2"]
    /\ th = [t \in Threads |-> Idle]
    /\ cl = [t \in ClientThreads |-> NoCall]
    /\ srv = [running |-> FALSE, transport |-> "None", request |-> NoRequest, raised |-> "none",
              started |-> FALSE, handler |-> "default", prev |-> "default",
              methods |-> {}, totals |-> 0, instart |-> FALSE, signal |-> "none",
              second |-> NoServer]
    /\ nextId = 1
    /\ invoked = <<>>

NextL ==
    \/ ServerNew
    \/ ServerClose
    \/ InstallHandler
    \/ TransportCreate("a")
    \/ \E t \in ClientThreads :
          \/ TransportOpen(t)
          \/ TransportClose(t)
          \/ ClientClose(t)
          \/ CallClosed(t)

SpecL == InitL /\ [][NextL]_vars

\* ------------------------------------------------- traffic while a transport is closed

\* the two modules with a SharedMemoryTransport class
Modules == {"_internal.transport", "transport"}

\* the threads that send and receive; thread "b" only closes the instance it is on
Movers == {"s", "a"}

\* the creator and an opener whose buffer_size is the creator's or one less; the
\* closing thread is a second thread of the creator's or of the opener's instance
InitC ==
    /\ sem = FreshSem
    /\ buf = FreshBuf(BufferSize)
    /\ linked = Names
    /\ hnd = [e \in Endpoints |-> Names]
    /\ owner = [e \in Endpoints |-> e = "srv"]
    /\ client = [e \in Endpoints \ {"srv"} |-> "none"]
    /\ bsize \in {f \in [Endpoints -> Sizes] :
                     /\ f["srv"] = BufferSize
                     /\ f["c1"] <= BufferSize
                     /\ f["c2"] = BufferSize}
    /\ impl \in {f \in [Endpoints -> Modules] :
                    f["srv"] = "_internal.transport" /\ f["c2"] = "_internal.transport"}
    /\ other = {}
    /\ old = NoObjects
    /\ lock = [e \in Endpoints |-> NoThread]
    /\ pending = [d \in Dirs |-> <<>>]
    /\ ep \in {f \in [Threads -> Endpoints] :
                  f["s"] = "srv" /\ f["a"] = "c1" /\ f["b"] \in {"srv", "c1"}}
    /\ th = [t \in Threads |-> Idle]
    /\ InitRpc

\* close() is called and comes to `with self._lock`
CloseBegin(t) ==
    /\ th[t].pc = "idle"
    /\ th' = [th EXCEPT ![t] = [Idle EXCEPT !.pc = "lock", !.op = "close"]]
    /\ UNCHANGED <<chanVars, confVars, lock, rpcVars>>

\* close() gets the lock, releases and unlinks, and returns
CloseEnd(t) ==
    /\ th[t].pc = "lock"
    /\ Closing(ep[t])
    /\ th' = [th EXCEPT ![t] = Done("close")]
    /\ UNCHANGED <<chanVars, confVars, lock, cl, srv, nextId, invoked>>

NextC ==
    \/ CloseBegin("b")
    \/ CloseEnd("b")
    \/ \E t \in Movers :
          \/ CallSend(t)
          \/ CallRecv(t)
          \/ Acquire(t)
          \/ Timeout(t)
          \/ SendWrite(t)
          \/ RecvRead(t)
          \/ SendPost(t)
          \/ RecvPost(t)

SpecC == InitC /\ [][NextC]_vars

\* ------------------------------------------------- leftovers and the cleanup utility

\* the name of the channel, letter by letter
ChannelName == <<"n">>

\* other channels on the host: one whose name starts with the channel's, one not
OtherChannels == {<<"n", "2">>, <<"m">>}

\* the values of --prefix; the empty one stands for no --prefix
Prefixes == {<<>>, ChannelName} \cup OtherChannels

\* the name of object n of channel ch, as list_shared_memory and list_semaphores
\* give it, without the leading slash
ObjectName(ch, n) == ch \o <<"_", n>>

ObjectsOf(ch) == {ObjectName(ch, n) : n \in Names}

\* str.startswith
StartsWith(x, p) == Len(p) <= Len(x) /\ SubSeq(x, 1, Len(p)) = p

\* the listed names the loops of cleanup_shared_memory and cleanup_semaphores do
\* not skip
Selected(listed, prefix) == {x \in listed : prefix = <<>> \/ StartsWith(x, prefix)}

\* a creator that ends unlinks what it holds, as its close() would
UnlinkedAtExitByOwner(own, held) == IF own THEN held ELSE {}

\* nothing is unlinked when a process ends
UnlinkedAtExit(own, held) == {}

\* the process of thread t ends without close() and without a signal: the kernel
\* releases its handles
ProcessExit(t) ==
    /\ th[t].pc = "idle"
    /\ hnd[ep[t]] # {}
    /\ linked' = linked \ UnlinkedAtExit(owner[ep[t]], hnd[ep[t]])
    /\ hnd' = [hnd EXCEPT ![ep[t]] = {}]
    /\ th' = [th EXCEPT ![t] = Done("exit")]
    /\ UNCHANGED <<chanVars, confVars, lock, cl, srv, nextId, invoked>>

\* the names in /dev/shm: those of the channel and those of the other channels
Listed == {ObjectName(ChannelName, n) : n \in linked} \cup other

\* cleanup_ipc.py [--dry-run] [--prefix P]: cleanup_shared_memory, cleanup_semaphores;
\* ret is the total the summary reports as removed
Cleanup(t, prefix, dry_run) ==
    /\ linked' = IF dry_run THEN linked
                 ELSE {n \in linked : ObjectName(ChannelName, n) \notin Selected(Listed, prefix)}
    /\ other' = IF dry_run THEN other ELSE other \ Selected(Listed, prefix)
    /\ th' = [th EXCEPT ![t] = [Done(IF dry_run THEN "cleanup --dry-run" ELSE "cleanup")
                                   EXCEPT !.data = prefix,
                                          !.ret = <<Cardinality(Selected(Listed, prefix))>>]]
    /\ UNCHANGED <<chanVars, bsize, ep, owner, client, impl, old, hnd, lock, cl, srv, nextId,
                   invoked>>

\* cleanup_ipc.py --list [--prefix P]
List(t, prefix) ==
    /\ th' = [th EXCEPT ![t] = [Done("cleanup --list") EXCEPT !.data = prefix]]
    /\ UNCHANGED <<chanVars, confVars, linked, hnd, lock, cl, srv, nextId, invoked>>

\* what is under the channel's name and under the other channels' names to begin
\* with, no process holding any of it
InitU ==
    /\ linked \in {{}, Names} \cup {{n} : n \in Names}
    /\ other \in {UNION {ObjectsOf(ch) : ch \in S} : S \in SUBSET OtherChannels}
    /\ old = NoObjects
    /\ sem = FreshSem
    /\ buf = FreshBuf(BufferSize)
    /\ pending = [d \in Dirs |-> <<>>]
    /\ hnd = [e \in Endpoints |-> {}]
    /\ owner = [e \in Endpoints |-> FALSE]
    /\ client = [e \in Endpoints \ {"srv"} |-> "none"]
    /\ bsize = [e \in Endpoints |-> BufferSize]
    /\ impl = [e \in Endpoints |-> "_internal.transport"]
    /\ lock = [e \in Endpoints |-> NoThread]
    /\ ep = [t \in Threads |-> IF t = "s" THEN "srv" ELSE IF t = "a" THEN "c1" ELSE "c2"]
    /\ th = [t \in Threads |-> Idle]
    /\ cl = [t \in ClientThreads |-> NoCall]
    /\ srv = [running |-> FALSE, transport |-> "None", request |-> NoRequest, raised |-> "none",
              started |-> FALSE, handler |-> "default", prev |-> "default",
              methods |-> {}, totals |-> 0, instart |-> FALSE, signal |-> "none",
              second |-> NoServer]
    /\ nextId = 1
    /\ invoked = <<>>

NextU ==
    \/ TransportCreate("a")
    \/ TransportClose("a")
    \/ ProcessExit("a")
    \/ \E prefix \in Prefixes :
          \/ \E dry_run \in BOOLEAN : Cleanup("b", prefix, dry_run)
          \/ List("b", prefix)

SpecU == InitU /\ [][NextU]_vars

\* ------------------------------------------------- the server from start to close

\* the creator's transport is as the server's loop needs it
Alive == srv.transport = "open" /\ hnd["srv"] = Names

\* `while self._running` is found true
LoopTest ==
    /\ srv.instart
    /\ srv.running
    /\ th["s"].pc = "idle"
    /\ th' = [th EXCEPT !["s"] = [Idle EXCEPT !.pc = "recv"]]
    /\ UNCHANGED <<chanVars, confVars, lock, rpcVars>>

\* `while self._running` is found false: the finally of start() runs close(), and
\* start() returns
LoopExit ==
    /\ srv.instart
    /\ ~srv.running
    /\ th["s"].pc = "idle"
    /\ srv' = Stop([srv EXCEPT !.transport = "None", !.instart = FALSE])
    /\ linked' = linked \ Unlinks("srv")
    /\ hnd' = [hnd EXCEPT !["srv"] = {}]
    /\ th' = [th EXCEPT !["s"] = Done("start")]
    /\ UNCHANGED <<chanVars, confVars, lock, cl, nextId, invoked>>

\* _handle_request -> _receive_request -> transport.receive_request() up to the wait
LoopReceive ==
    /\ th["s"].pc = "recv"
    /\ Alive
    /\ TakeLock("s")
    /\ th' = [th EXCEPT !["s"] = InWait("receive_request", <<>>)]
    /\ UNCHANGED <<chanVars, confVars, rpcVars>>

\* the loop's thread finds the transport closed under it, by close() of another
\* thread or of the signal handler: `assert self.transport is not None` fails
\* between two transport calls, and inside one the call raises RPCTransportError;
\* the exception leaves start()
LoopBroken ==
    /\ srv.instart
    /\ ~Alive
    /\ th["s"].pc # "idle"
    /\ ServerRaise(IF lock["srv"] = "s" \/ srv.transport = "closed"
                   THEN "RPCTransportError" ELSE "AssertionError")
    /\ lock' = [lock EXCEPT !["srv"] = NoThread]
    /\ UNCHANGED <<chanVars, confVars, cl, nextId, invoked>>

\* close() of the server by another thread: _running = False, and up to
\* `with self._lock` of transport.close() if there is a transport
CloseCall(t) ==
    /\ th[t].pc = "idle"
    /\ IF srv.transport = "None"
       THEN /\ srv' = Stop([srv EXCEPT !.running = FALSE])
            /\ th' = [th EXCEPT ![t] = Done("server.close")]
       ELSE /\ srv' = [srv EXCEPT !.running = FALSE]
            /\ th' = [th EXCEPT ![t] = [Idle EXCEPT !.pc = "lock", !.op = "server.close"]]
    /\ UNCHANGED <<chanVars, confVars, lock, cl, nextId, invoked, linked, hnd>>

\* transport.close() of the server's close() under the lock; self.transport may
\* have become None since it was tested
CloseTransport(t) ==
    /\ th[t].pc = "lock"
    /\ th[t].op = "server.close"
    /\ IF srv.transport = "None"
       THEN /\ th' = [th EXCEPT ![t] = Raised("AttributeError", "server.close")]
            /\ UNCHANGED <<srv, linked, hnd>>
       ELSE /\ Closing("srv")
            /\ srv' = [srv EXCEPT !.transport = "closed"]
            /\ th' = [th EXCEPT ![t].pc = "closed"]
    /\ UNCHANGED <<chanVars, confVars, lock, cl, nextId, invoked>>

\* close() of the server keeps the closed transport
CloseReturnKeepsTransport(t) ==
    /\ th[t].pc = "closed"
    /\ srv' = Stop(srv)
    /\ th' = [th EXCEPT ![t] = Done("server.close")]
    /\ UNCHANGED <<chanVars, confVars, lock, cl, nextId, invoked, linked, hnd>>

\* the rest of the server's close(): self.transport = None, _signal_handler.stop()
CloseReturn(t) ==
    /\ th[t].pc = "closed"
    /\ srv' = Stop([srv EXCEPT !.transport = "None"])
    /\ th' = [th EXCEPT ![t] = Done("server.close")]
    /\ UNCHANGED <<chanVars, confVars, lock, cl, nextId, invoked, linked, hnd>>

\* SIGTERM or SIGINT is sent to the process while the server's handler is installed
SignalSent ==
    /\ srv.handler = "server"
    /\ srv.signal = "none"
    /\ srv' = [srv EXCEPT !.signal = "pending"]
    /\ UNCHANGED <<chanVars, confVars, lock, th, cl, nextId, invoked, linked, hnd>>

\* _SignalHandler._handler runs on the main thread, wherever that is: close() of
\* the server, whose transport.close() enters the lock again if the main thread has it
HandlerRuns ==
    /\ srv.signal = "pending"
    /\ lock["srv"] \in {NoThread, "s"}
    /\ srv' = Stop([srv EXCEPT !.signal = "handled", !.running = FALSE, !.transport = "None"])
    /\ linked' = linked \ Unlinks("srv")
    /\ hnd' = [hnd EXCEPT !["srv"] = {}]
    /\ UNCHANGED <<chanVars, confVars, lock, th, cl, nextId, invoked>>

\* RPCServer(name) once more in the server's process while the names exist: the
\* handlers of the new object are installed, create fails, the exception leaves
\* the constructor
SecondServerFails(t) ==
    /\ th[t].pc = "idle"
    /\ CreateFails(linked)
    /\ srv.handler = "server"
    /\ srv' = [srv EXCEPT !.handler = "server2"]
    /\ linked' = (linked \cup Created(linked)) \ FailedCreateUnlinks(Created(linked))
    /\ th' = [th EXCEPT ![t] = Raised("Transport", "RPCServer")]
    /\ UNCHANGED <<chanVars, confVars, lock, cl, nextId, invoked, hnd>>

\* _status() of the server, the probe of a running server apart
ServerStatus ==
    IF srv.transport = "None"
    THEN IF srv.running THEN "ERROR" ELSE "CLOSED"
    ELSE IF ~srv.running THEN "INITIALIZED" ELSE "PROBE"

\* a constructed server, one client, and a second thread in the server's process
InitV ==
    /\ InitChannel(RpcBufferSize)
    /\ ep["b"] = "c2"
    /\ InitRpc

NextV ==
    \/ ServerStart
    \/ LoopTest
    \/ LoopExit
    \/ LoopReceive
    \/ LoopBroken
    \/ Alive /\ ServerRecvTimeout
    \/ Alive /\ ServerRecvRead
    \/ Alive /\ ServerHandle
    \/ Alive /\ ServerRespond
    \/ Alive /\ ServerSendTimeout
    \/ Alive /\ ServerSendPost
    \/ Alive /\ Acquire("s")
    \/ Alive /\ SendWrite("s")
    \/ CloseCall("b")
    \/ CloseTransport("b")
    \/ CloseReturn("b")
    \/ SecondServerFails("b")
    \/ SignalSent
    \/ HandlerRuns
    \/ ClientCall("a")
    \/ Acquire("a")
    \/ ClientTimeout("a")
    \/ SendWrite("a")
    \/ ClientSendPost("a")
    \/ ClientReceive("a")
    \/ ClientRecvRead("a")
    \/ ClientReturn("a")

SpecV == InitV /\ [][NextV]_vars

\* the steps of the thread that is in start()
LoopStep ==
    \/ LoopTest
    \/ LoopExit
    \/ LoopReceive
    \/ LoopBroken
    \/ Alive /\ ServerRecvTimeout
    \/ Alive /\ ServerRecvRead
    \/ Alive /\ ServerHandle
    \/ Alive /\ ServerRespond
    \/ Alive /\ ServerSendTimeout
    \/ Alive /\ ServerSendPost
    \/ Alive /\ Acquire("s")
    \/ Alive /\ SendWrite("s")

\* the main thread keeps running, and a pending signal's handler is run on it
SpecVF == SpecV /\ WF_vars(LoopStep) /\ WF_vars(HandlerRuns)

\* ------------------------------------------- one client, no wait that expires

\* the steps of the server's thread, none of them a timeout
ServerMoves ==
    \/ ServerStart
    \/ ServerReceive
    \/ ServerRecvRead
    \/ ServerHandle
    \/ ServerRespond
    \/ ServerSendPost
    \/ Acquire("s")
    \/ SendWrite("s")

\* the steps of a client thread inside call(), none of them a timeout
ClientMoves(t) ==
    \/ Acquire(t)
    \/ SendWrite(t)
    \/ ClientSendPost(t)
    \/ ClientReceive(t)
    \/ ClientRecvRead(t)
    \/ ClientReturn(t)

InitP ==
    /\ InitChannel(RpcBufferSize)
    /\ ep["b"] = "c2"
    /\ InitRpc

NextP == ServerMoves \/ ClientCall("a") \/ ClientMoves("a")

\* the server and one client, each taking its steps, with waits that last until
\* the semaphore is posted
SpecP == InitP /\ [][NextP]_vars /\ WF_vars(ServerMoves) /\ WF_vars(ClientMoves("a"))

\* ------------------------------------- one client that gives up waiting for responses

\* receive_response of the client's call times out: RPCTimeoutError leaves call()
ClientGivesUp(t) ==
    /\ th[t].op = "receive_response"
    /\ ClientTimeout(t)

NextR == ServerMoves \/ ClientCall("a") \/ ClientMoves("a") \/ ClientGivesUp("a")

\* as SpecP, and the client's wait for a response may expire
SpecR == InitP /\ [][NextR]_vars /\ WF_vars(ServerMoves) /\ WF_vars(ClientMoves("a"))

\* ------------------------------------- responses the server cannot send

\* the server with the long-text and the object method, one client
InitE == InitChannel(RpcBufferSize) /\ ep["b"] = "c2" /\ InitRpcWith(EchoMethods)

SpecE == InitE /\ [][NextR]_vars

\* -------------------------------------------- two servers in one process

\* the channel of the second server
Channel2 == <<"m">>

\* RPCServer(name2) in the process of the first server: its _SignalHandler saves
\* the handlers it finds and installs its own, then the channel is created
Server2New ==
    /\ srv.second.transport = "None"
    /\ ~srv.second.started
    /\ ObjectsOf(Channel2) \cap other = {}
    /\ srv' = [srv EXCEPT !.handler = "server2",
                          !.second = [transport |-> "open", started |-> TRUE,
                                      prev |-> srv.handler]]
    /\ other' = other \cup ObjectsOf(Channel2)
    /\ UNCHANGED <<chanVars, bsize, ep, owner, client, impl, old, lock, th, cl, nextId, invoked,
                   linked, hnd>>

\* close() of the second server: its transport is closed and dropped, and stop()
\* puts back the handlers its _SignalHandler had saved
Server2Close ==
    /\ srv.second.transport = "open"
    /\ srv' = [srv EXCEPT !.handler = IF srv.second.started THEN srv.second.prev ELSE @,
                          !.second = [@ EXCEPT !.transport = "None", !.started = FALSE]]
    /\ other' = other \ ObjectsOf(Channel2)
    /\ UNCHANGED <<chanVars, bsize, ep, owner, client, impl, old, lock, th, cl, nextId, invoked,
                   linked, hnd>>

\* nothing under the channel's name: the constructors do not fail
InitH == InitL /\ linked = {}

NextH ==
    \/ ServerNew
    \/ ServerClose
    \/ Server2New
    \/ Server2Close
    \/ InstallHandler
    \/ \E t \in ClientThreads :
          \/ TransportOpen(t)
          \/ TransportClose(t)

SpecH == InitH /\ [][NextH]_vars

\* ------------------------------------- the channel created anew under its name

\* the instance of thread t holds the previous objects of the channel
Att(t) == ep[t] \in old.att

\* the instance of thread t holds the objects that are under the channel's name
Cur(t) == ~Att(t) /\ hnd[ep[t]] = Names

\* what the steps on the previous objects leave alone
heldVars == <<sem, buf, pending, bsize, ep, owner, client, impl, other, linked, hnd>>

\* the semaphore wait succeeds, on the previous objects
OldAcquire(t) ==
    /\ Att(t)
    /\ th[t].pc = "wait"
    /\ old.sem[WaitSem(th[t].op)] > 0
    /\ old' = [old EXCEPT !.sem[WaitSem(th[t].op)] = @ - 1]
    /\ th' = [th EXCEPT ![t].pc = "copy"]
    /\ UNCHANGED <<heldVars, lock, cl, srv, nextId, invoked>>

\* the semaphore wait expires, on the previous objects: RPCTimeoutError leaves call()
OldTimeout(t) ==
    /\ Att(t)
    /\ th[t].pc = "wait"
    /\ old.sem[WaitSem(th[t].op)] = 0
    /\ ReleaseLock(t)
    /\ th' = [th EXCEPT ![t] = Idle]
    /\ cl' = [cl EXCEPT ![t].pc = "idle", ![t].out = "RPCTimeoutError"]
    /\ UNCHANGED <<heldVars, old, srv, nextId, invoked>>

\* header and payload are written into the previous request segment
OldSendWrite(t) ==
    /\ Att(t)
    /\ th[t].pc = "copy"
    /\ th[t].op \in SendOps
    /\ old' = [old EXCEPT !.buf[DirOf(th[t].op)] = WriteFrame(@, th[t].data)]
    /\ th' = [th EXCEPT ![t].pc = "post"]
    /\ UNCHANGED <<heldVars, lock, cl, srv, nextId, invoked>>

\* send_request returns, the previous full semaphore posted
OldSendPost(t) ==
    /\ Att(t)
    /\ th[t].pc = "post"
    /\ th[t].op \in SendOps
    /\ old' = [old EXCEPT !.sem[PostSem(th[t].op)] = @ + 1,
                          !.pending[DirOf(th[t].op)] = Append(@, th[t].data)]
    /\ ReleaseLock(t)
    /\ th' = [th EXCEPT ![t] = Idle]
    /\ cl' = [cl EXCEPT ![t].pc = "sent"]
    /\ UNCHANGED <<heldVars, srv, nextId, invoked>>

\* the part of the previous segment the thread's instance has mapped
OldMapped(t) == SubSeq(old.buf[DirOf(th[t].op)], 1, bsize[ep[t]])

\* the client reads the response frame of the previous response segment
OldRecvRead(t) ==
    /\ Att(t)
    /\ th[t].pc = "copy"
    /\ th[t].op = "receive_response"
    /\ IF Validates(impl[ep[t]]) /\ InvalidSize(ReadSize(OldMapped(t)), bsize[ep[t]])
       THEN /\ th' = [th EXCEPT ![t] = Idle]
            /\ cl' = [cl EXCEPT ![t].pc = "idle", ![t].out = "RPCTransportError"]
            /\ ReleaseLock(t)
       ELSE /\ th' = [th EXCEPT ![t].pc = "post",
                                ![t].ret = ReadData(OldMapped(t), ReadSize(OldMapped(t)))]
            /\ UNCHANGED <<lock, cl>>
    /\ UNCHANGED <<heldVars, old, srv, nextId, invoked>>

\* receive_response returns, the previous empty semaphore posted; the call ends
OldReturn(t) ==
    /\ Att(t)
    /\ th[t].pc = "post"
    /\ th[t].op \in RecvOps
    /\ old' = [old EXCEPT !.sem[PostSem(th[t].op)] = @ + 1,
                          !.pending[DirOf(th[t].op)] = IF @ = <<>> THEN @ ELSE Tail(@)]
    /\ ReleaseLock(t)
    /\ th' = [th EXCEPT ![t] = Idle]
    /\ cl' = [cl EXCEPT ![t] = CallOutcome(cl[t].rid, th[t].ret)]
    /\ UNCHANGED <<heldVars, srv, nextId, invoked>>

\* the steps of an opener that holds the previous objects
OldMoves(t) ==
    \/ OldAcquire(t)
    \/ OldTimeout(t)
    \/ OldSendWrite(t)
    \/ OldSendPost(t)
    \/ OldRecvRead(t)
    \/ OldReturn(t)
    \/ Att(t) /\ ClientReceive(t)

\* close() of an opener outside a call: its handles are released; objects that
\* are unlinked and held by nobody any more are gone
OpenerClose(t) ==
    /\ AtRest(t)
    /\ hnd[ep[t]] # {}
    /\ Closing(ep[t])
    /\ old' = IF old.att \subseteq {ep[t]} THEN NoObjects ELSE [old EXCEPT !.att = @ \ {ep[t]}]
    /\ th' = [th EXCEPT ![t] = Done("close")]
    /\ UNCHANGED <<chanVars, bsize, ep, owner, client, impl, other, lock, cl, srv, nextId,
                   invoked>>

\* SharedMemoryTransport.open(name, bs) on the closed instance: the objects that
\* are under the name now are opened
OpenerOpen(t) ==
    /\ AtRest(t)
    /\ hnd[ep[t]] = {}
    /\ lock[ep[t]] = NoThread
    /\ linked' = linked \ UnlinkedBy(FALSE, Opened(linked, bsize[ep[t]]))
    /\ IF OpenFails(linked, bsize[ep[t]])
       THEN /\ hnd' = [hnd EXCEPT ![ep[t]] = {}]
            /\ th' = [th EXCEPT ![t] = Raised("Transport", "open")]
       ELSE /\ hnd' = [hnd EXCEPT ![ep[t]] = Opened(linked, bsize[ep[t]])]
            /\ th' = [th EXCEPT ![t] = Done("open")]
    /\ UNCHANGED <<chanVars, confVars, lock, cl, srv, nextId, invoked>>

\* close() of the server between two operations of its loop, start() returning:
\* the creator's transport is closed, the six names are unlinked
CreatorCloses ==
    /\ th["s"].pc = "idle"
    /\ srv.transport = "open"
    /\ lock["srv"] = NoThread
    /\ srv' = Stop([srv EXCEPT !.running = FALSE, !.transport = "None",
                               !.request = NoRequest, !.instart = FALSE])
    /\ linked' = linked \ Unlinks("srv")
    /\ hnd' = [hnd EXCEPT !["srv"] = {}]
    /\ th' = [th EXCEPT !["s"] = Done("server.close")]
    /\ UNCHANGED <<chanVars, confVars, lock, cl, nextId, invoked>>

\* the new objects take the place of the previous ones in every instance
CreatorRenewsInPlace ==
    /\ th["s"].pc = "idle"
    /\ srv.transport = "None"
    /\ ~CreateFails(linked)
    /\ old.att = {}
    /\ old' = NoObjects
    /\ sem' = FreshSem
    /\ buf' = FreshBuf(bsize["srv"])
    /\ pending' = [d \in Dirs |-> <<>>]
    /\ linked' = Names
    /\ hnd' = [hnd EXCEPT !["srv"] = Names]
    /\ srv' = [srv EXCEPT !.started = TRUE, !.handler = "server", !.prev = srv.handler,
                          !.running = FALSE, !.raised = "none", !.transport = "open"]
    /\ th' = [th EXCEPT !["s"] = Done("create")]
    /\ UNCHANGED <<bsize, ep, owner, client, impl, other, lock, cl, nextId, invoked>>

\* RPCServer(name, bs) once the names are free: six new objects are created
\* under the names; the previous ones stay with the openers that hold them
CreatorRenews ==
    /\ th["s"].pc = "idle"
    /\ srv.transport = "None"
    /\ ~CreateFails(linked)
    /\ old.att = {}
    /\ old' = IF \E e \in Endpoints : hnd[e] # {}
              THEN [sem |-> sem, buf |-> buf, pending |-> pending,
                    att |-> {e \in Endpoints : hnd[e] # {}}]
              ELSE NoObjects
    /\ sem' = FreshSem
    /\ buf' = FreshBuf(bsize["srv"])
    /\ pending' = [d \in Dirs |-> <<>>]
    /\ linked' = Names
    /\ hnd' = [hnd EXCEPT !["srv"] = Names]
    /\ srv' = [srv EXCEPT !.started = TRUE, !.handler = "server", !.prev = srv.handler,
                          !.running = FALSE, !.raised = "none", !.transport = "open"]
    /\ th' = [th EXCEPT !["s"] = Done("create")]
    /\ UNCHANGED <<bsize, ep, owner, client, impl, other, lock, cl, nextId, invoked>>

\* a call is started on an open transport
OpenCall(t) == hnd[ep[t]] = Names /\ ClientCall(t)

\* a wait on the objects under the name expires when no server serves them: a
\* running server answers within the timeout
Unserved(t) == Cur(t) /\ srv.transport = "None" /\ ClientTimeout(t)

\* a server and its client; the second opener only closes and opens
NextG ==
    \/ ServerMoves
    \/ ServerRecvTimeout
    \/ CreatorCloses
    \/ CreatorRenews
    \/ OpenCall("a")
    \/ Cur("a") /\ ClientMoves("a")
    \/ Unserved("a")
    \/ OldMoves("a")
    \/ \E t \in ClientThreads :
          \/ OpenerClose(t)
          \/ OpenerOpen(t)

SpecG == InitP /\ [][NextG]_vars

\* ------------------------------------------------ the probe of _status()

\* the request_id of the probe's request
ProbeId == 0

\* the probes the server has answered so far
Probed == Cardinality({i \in 1..Len(invoked) : invoked[i][1] = "__running__"})

\* _status() of a running server up to the wait of send_request: thread t opens a
\* transport of its own (endpoint ep[t]) and sends the __running__ request
ProbeCall(t) ==
    /\ AtRest(t)
    /\ ServerStatus = "PROBE"
    /\ Probed < MaxCalls
    /\ LET data == EncodeRequest([request_id |-> ProbeId, method |-> "__running__",
                                  param |-> 0])
       IN  IF ~(Names \subseteq linked)
           THEN /\ cl' = [cl EXCEPT ![t] = [NoCall EXCEPT !.rid = ProbeId, !.out = "ERROR"]]
                /\ UNCHANGED <<lock, th, hnd>>
           ELSE /\ hnd' = [hnd EXCEPT ![ep[t]] = Names]
                /\ TakeLock(t)
                /\ th' = [th EXCEPT ![t] = InWait("send_request", data)]
                /\ cl' = [cl EXCEPT ![t] = [NoCall EXCEPT !.pc = "call", !.rid = ProbeId]]
    /\ UNCHANGED <<chanVars, confVars, srv, nextId, invoked, linked>>

\* the probe compares the response's request_id with its own
ProbeOutcomeChecksId(bytes) ==
    LET r == DecodeResponse(bytes)
    IN  IF r.ok /\ r.error = "None" /\ r.request_id = ProbeId
        THEN [NoCall EXCEPT !.rid = ProbeId, !.out = "RUNNING", !.got = r.request_id]
        ELSE [NoCall EXCEPT !.rid = ProbeId, !.out = "ERROR"]

\* _status() from decode_response to its return: RUNNING if the response has no
\* error, whatever its request_id; a decode failure is an RPCError
ProbeOutcome(bytes) ==
    LET r == DecodeResponse(bytes)
    IN  IF r.ok /\ r.error = "None"
        THEN [NoCall EXCEPT !.rid = ProbeId, !.out = "RUNNING", !.got = r.request_id]
        ELSE [NoCall EXCEPT !.rid = ProbeId, !.out = "ERROR"]

\* a wait of the probe expires: except RPCError returns ERROR, finally closes
ProbeTimeout(t) ==
    /\ WaitExpires(t)
    /\ th' = [th EXCEPT ![t] = Idle]
    /\ cl' = [cl EXCEPT ![t] = [NoCall EXCEPT !.rid = ProbeId, !.out = "ERROR"]]
    /\ hnd' = [hnd EXCEPT ![ep[t]] = {}]
    /\ UNCHANGED <<srv, nextId, invoked, linked>>

\* receive_response of the probe returns; the status is decided and the probe's
\* transport is closed
ProbeReturn(t) ==
    /\ PostEmpty(t)
    /\ th' = [th EXCEPT ![t] = Idle]
    /\ cl' = [cl EXCEPT ![t] = ProbeOutcome(th[t].ret)]
    /\ hnd' = [hnd EXCEPT ![ep[t]] = {}]
    /\ UNCHANGED <<srv, nextId, invoked, linked>>

\* the steps of the probe between its call and its return
ProbeMoves(t) ==
    \/ Acquire(t)
    \/ SendWrite(t)
    \/ ClientSendPost(t)
    \/ ClientReceive(t)
    \/ ClientRecvRead(t)
    \/ ProbeReturn(t)
    \/ ProbeTimeout(t)

\* a running server, a client calling on its own opener, and a thread of the
\* server's process asking for the status
NextQ ==
    \/ ServerMoves
    \/ ClientCall("a")
    \/ ClientMoves("a")
    \/ ProbeCall("b")
    \/ ProbeMoves("b")

SpecQ == InitP /\ [][NextQ]_vars

\* ------------------------------------------------- properties of the transport

\* the receivers of direction d that hold the slot (between their wait and their post)
Reading(d) == {t \in Threads : th[t].op \in RecvOps /\ DirOf(th[t].op) = d
                               /\ th[t].pc \in {"copy", "post"}}

\* the senders of direction d that hold the slot
Writing(d) == {t \in Threads : th[t].op \in SendOps /\ DirOf(th[t].op) = d
                               /\ th[t].pc \in {"copy", "post"}}

\* thread t has just come back from a receive with the payload th[t].ret
Returns(t) == th[t].pc = "post" /\ th[t].op \in RecvOps /\ th'[t].pc = "idle"

\* C1: framing round trip. Whenever a slot is full, the frame in its buffer decodes
\* to exactly the payload that was given to the send, and the bytes a receive has
\* copied out and is about to return are exactly that payload, whatever frames the
\* buffer held before.
C1_FramingRoundTrip ==
    \A d \in Dirs :
        /\ sem[FullSem(d)] >= 1 =>
              /\ pending[d] # <<>>
              /\ ~InvalidSize(ReadSize(buf[d]), Len(buf[d]))
              /\ ReadData(buf[d], ReadSize(buf[d])) = Head(pending[d])
        /\ \A t \in Reading(d) :
              th[t].pc = "post" => pending[d] # <<>> /\ th[t].ret = Head(pending[d])

\* the empty payload is being returned from a buffer that still holds the bytes of
\* an earlier, longer frame
C1_Witness ==
    \E t \in Threads :
        /\ th[t].pc = "post" /\ th[t].op = "receive_request"
        /\ th[t].ret = <<>>
        /\ buf["request"][HEADER_SIZE + 1] # 0

\* C2: no reordering. The payloads sent on a direction and not yet received form a
\* queue (a send joins it when it returns); every receive that returns, returns the
\* oldest payload of the queue and removes it, so the k-th receive returns the
\* payload of the k-th send.
C2_NoReordering ==
    [][\A t \in Threads :
          Returns(t) =>
              LET d == DirOf(th[t].op)
              IN  /\ pending[d] # <<>>
                  /\ th[t].ret = Head(pending[d])
                  /\ pending'[d] = Tail(pending[d])
                  /\ \A u \in Threads \ {t} : ~(th[u].pc = "post" /\ th[u].op = th[t].op)]_vars

\* a response is being returned while the request buffer shows that requests of two
\* lengths went through before and another request is queued
C2_Witness ==
    \E t \in Threads :
        /\ th[t].pc = "post" /\ th[t].op = "receive_response" /\ th[t].ret # <<>>
        /\ buf["request"][HEADER_SIZE + 1] # 0
        /\ pending["request"] = << <<>> >>

\* C3: no duplication. A receive gets past its wait only when a sent payload is
\* unconsumed, and no two receives hold the same payload; with nothing unconsumed the
\* full semaphore is 0 (a receive blocks or times out) and, no send being under way,
\* the slot is EMPTY: empty = 1, full = 0.
C3_NoDuplication ==
    \A d \in Dirs :
        /\ Cardinality(Reading(d)) <= Len(pending[d])
        /\ pending[d] = <<>> => sem[FullSem(d)] = 0
        /\ pending[d] = <<>> /\ Writing(d) = {} => sem[EmptySem(d)] = 1

\* a receive_response has timed out on a slot through which a response went before
C3_Witness ==
    \E t \in Threads :
        /\ th[t].res = "Timeout" /\ th[t].op = "receive_response"
        /\ buf["response"][HEADER_SIZE + 1] # 0
        /\ pending["response"] = <<>>
        /\ sem["resp_empty"] = 1 /\ sem["resp_full"] = 0

\* C4: a pending message is not overwritten. While a sent payload is unconsumed the
\* empty semaphore is 0, the slot is FULL unless a receive holds it, no step changes
\* the buffer, and a send waiting on that slot stays waiting or fails with Timeout.
C4_NoOverwrite ==
    /\ [](\A d \in Dirs :
            pending[d] # <<>> =>
                /\ sem[EmptySem(d)] = 0
                /\ Writing(d) = {}
                /\ Reading(d) = {} => sem[FullSem(d)] = 1)
    /\ [][\A d \in Dirs :
            pending[d] # <<>> =>
                /\ buf'[d] = buf[d]
                /\ \A t \in Threads :
                      th[t].pc = "wait" /\ th[t].op \in SendOps /\ DirOf(th[t].op) = d
                      => th'[t] = th[t] \/ th'[t] = Raised("Timeout", th[t].op)]_vars

\* a send_request has timed out on a request that is still pending
C4_Witness ==
    \E t \in Threads :
        /\ th[t].res = "Timeout" /\ th[t].op = "send_request"
        /\ pending["request"] # <<>>

\* thread t has just called a send with the payload th'[t].data
CallsSend(t) == th[t].pc = "idle" /\ th'[t].op \in SendOps /\ th'[t] # th[t]

\* C5: size bound. A send of B-4 bytes or fewer gets to its wait and, on an EMPTY
\* slot, goes on to write; a send of B-3 bytes or more fails with Transport at once,
\* leaving semaphores, buffers and lock as they were.
C5_SizeBound ==
    [][\A t \in Threads :
          /\ CallsSend(t) =>
                IF Len(th'[t].data) >= bsize[ep[t]] - 3
                THEN th'[t].res = "Transport" /\ th'[t].pc = "idle"
                     /\ UNCHANGED <<sem, buf, pending, lock>>
                ELSE th'[t].pc = "wait" /\ th'[t].res = "none"
          /\ th[t].pc = "wait" /\ th[t].op \in SendOps /\ th'[t] # th[t]
             /\ sem[EmptySem(DirOf(th[t].op))] = 1
             => th'[t].pc = "copy"]_vars

\* a send of B-3 bytes was rejected while a payload of B-4 bytes, sent on the same
\* direction, is pending
C5_Witness ==
    \E t \in Threads :
        /\ th[t].res = "Transport" /\ th[t].op \in SendOps
        /\ Len(th[t].data) = bsize[ep[t]] - 3
        /\ pending[DirOf(th[t].op)] # <<>>
        /\ Len(Head(pending[DirOf(th[t].op)])) = bsize[ep[t]] - 4

\* C6: a Timeout leaves the channel as it was. The step that ends an operation with
\* Timeout changes no semaphore and no buffer, and it is taken from the wait, which
\* the operation reached without changing them either.
C6_TimeoutFrame ==
    [][\A t \in Threads :
          /\ th'[t].res = "Timeout" /\ th'[t] # th[t]
             => th[t].pc = "wait" /\ UNCHANGED <<sem, buf, pending>>
          /\ th'[t].pc = "wait" /\ th[t].pc # "wait"
             => th[t].pc = "idle" /\ UNCHANGED <<sem, buf, pending>>]_vars

\* a send and a receive have both ended with Timeout
C6_Witness ==
    \E t, u \in Threads :
        /\ th[t].res = "Timeout" /\ th[t].op \in SendOps
        /\ th[u].res = "Timeout" /\ th[u].op \in RecvOps

\* ------------------------------------------------------ properties of the RPC

\* thread t returns from receive_response into call()
CallReturns(t) ==
    /\ th[t].op = "receive_response"
    /\ th[t].pc = "post"
    /\ th'[t].pc = "idle"

\* C7 (correlation): call() returns a result only when the response it received
\* decodes and carries the request_id this call generated, and the result is that
\* response's; when the response carries another request_id, call() raises the
\* protocol error (RPCError) and returns no result.
C7_Correlation ==
    [][\A t \in ClientThreads :
         CallReturns(t) =>
            LET r == DecodeResponse(th[t].ret)
            IN  /\ cl'[t].out = "result" =>
                     /\ r.ok
                     /\ r.request_id = cl[t].rid
                     /\ cl'[t].val = r.result
                /\ (r.ok /\ r.request_id # cl[t].rid) =>
                     /\ cl'[t].out = "RPCError"
                     /\ cl'[t].val = <<>>]_vars

\* a call has raised the protocol error on the well-formed response of another call
C7_Witness ==
    \E t \in ClientThreads :
        /\ cl[t].out = "RPCError"
        /\ cl[t].got # 0
        /\ cl[t].got # cl[t].rid
        /\ cl[t].pc = "idle"

\* the request of t's call was sent and its response is not yet received
InFlight(t) ==
    \/ cl[t].pc = "sent"
    \/ cl[t].pc = "call" /\ th[t].op = "receive_response"

\* thread u writes the request of its call to the request slot
WritesRequest(u) ==
    /\ cl[u].pc = "call"
    /\ th[u].op = "send_request"
    /\ th[u].pc = "copy"
    /\ th'[u].pc = "post"

\* C8 (one call in flight): between the moment a call's request was sent and the
\* moment its response has been received, no other thread writes the request of
\* another call to the request slot.
C8_OneCallInFlight ==
    [][\A t \in ClientThreads : \A u \in ClientThreads \ {t} :
          InFlight(t) => ~WritesRequest(u)]_vars

\* two calls are in flight at once: both requests sent, neither response received
C8_Witness ==
    /\ InFlight("a")
    /\ InFlight("b")

\* the server goes from the received request to the response it will send
Handles ==
    /\ th["s"].op = "receive_request"
    /\ th["s"].pc = "post"
    /\ th'["s"].pc = "ready"

\* the server returns from send_response
Responded ==
    /\ th["s"].op = "send_response"
    /\ th["s"].pc = "post"
    /\ th'["s"].pc = "idle"

\* C9 (dispatch failures are recovered): for a request naming an unregistered
\* method no method is invoked and the response carries the request's id, a null
\* result and an error containing "Unknown method"; for a registered method that
\* raises, the response carries the request's id, a null result and the raised
\* message; once that response is sent the server is still running, at the top of
\* its loop with its transport open; and the call that receives that response
\* fails with RPCMethodError carrying the error.
C9_DispatchRecovers ==
    /\ [][Handles =>
            LET req == srv'.request
                r == DecodeResponse(th'["s"].data)
            IN  /\ req.method \notin Registered =>
                     /\ invoked' = invoked
                     /\ r.ok
                     /\ r.request_id = req.request_id
                     /\ r.result = <<>>
                     /\ r.error = "RPCError: Unknown method"
                /\ (req.method \in Registered /\ MethodRaises(req.method, req.param)) =>
                     /\ invoked' = Append(invoked, <<req.method, req.param>>)
                     /\ r.ok
                     /\ r.request_id = req.request_id
                     /\ r.result = <<>>
                     /\ r.error = "ValueError: Division by zero"]_vars
    /\ [][Responded =>
            /\ srv'.running
            /\ srv'.transport = "open"
            /\ linked' = Names
            /\ lock'[ep["s"]] = NoThread
            /\ pending'["response"][Len(pending'["response"])] = th["s"].data]_vars
    /\ [][\A t \in ClientThreads :
            CallReturns(t) =>
               LET r == DecodeResponse(th[t].ret)
               IN  (r.ok /\ r.request_id = cl[t].rid /\ r.error # "None") =>
                      /\ cl'[t].out = "RPCMethodError"
                      /\ cl'[t].err = r.error
                      /\ cl'[t].val = <<>>]_vars

\* a call to the unregistered method failed with RPCMethodError, no method having
\* been invoked for it, and the server then served the call that followed
C9_Witness ==
    /\ cl["a"].out = "RPCMethodError"
    /\ cl["a"].err = "RPCError: Unknown method"
    /\ cl["a"].rid = 1
    /\ cl["b"].out = "result"
    /\ cl["b"].rid = 2
    /\ invoked = << <<"add", 1>> >>
    /\ srv.running

\* the server returns from receive_request with bytes that are no request
TakesGarbage ==
    /\ th["s"].op = "receive_request"
    /\ th["s"].pc = "post"
    /\ th'["s"].pc # "post"
    /\ ~DecodeRequest(th["s"].ret).ok

\* C10 (decode failures are answered): when the bytes taken from the request slot
\* are no request, the server goes on to send a response whose error is "Decode:"
\* and whose request_id is the empty one, and it is still running.
C10_DecodeFailureAnswered ==
    [][TakesGarbage =>
          /\ srv'.running
          /\ th'["s"].op = "send_response"
          /\ LET r == DecodeResponse(th'["s"].data)
             IN  /\ r.ok
                 /\ r.error = "Decode:"
                 /\ r.request_id = 0]_vars

\* the decode failure has left start(): the server is stopped, its transport is
\* closed and unlinked, and no response was sent
C10_Witness ==
    /\ srv.raised = "RPCSerializationError"
    /\ ~srv.running
    /\ srv.transport = "None"
    /\ linked = {}
    /\ pending["response"] = <<>>
    /\ sem[FullSem("response")] = 0

\* the wait of the server's send_response expires
SendTimesOut ==
    /\ th["s"].op = "send_response"
    /\ th["s"].pc = "wait"
    /\ th'["s"].pc \notin {"wait", "copy"}

\* C11 (a send_response Timeout is fatal): when the wait of send_response in the
\* dispatch loop expires, the response slot being still FULL, the send is not
\* tried again: RPCTimeoutError leaves start(), the loop is over (_running is
\* False), the server's transport is closed and dropped and the six kernel
\* objects are unlinked, the slot contents untouched; and the server stays so.
C11_SendTimeoutFatal ==
    /\ [][SendTimesOut =>
            /\ sem[EmptySem("response")] = 0
            /\ srv'.raised = "RPCTimeoutError"
            /\ ~srv'.running
            /\ srv'.transport = "None"
            /\ th'["s"] = Idle
            /\ linked = Names
            /\ linked' = {}
            /\ hnd'["srv"] = {}
            /\ UNCHANGED <<sem, buf, pending>>]_vars
    /\ [](srv.raised = "RPCTimeoutError" =>
            /\ ~srv.running
            /\ srv.transport = "None"
            /\ linked = {}
            /\ th["s"] = Idle)

\* start() was left by RPCTimeoutError while a response nobody read is in the
\* slot; the one the server could not send was the answer to a later request
C11_Witness ==
    /\ srv.raised = "RPCTimeoutError"
    /\ linked = {}
    /\ sem[FullSem("response")] = 1
    /\ Len(pending["response"]) = 1
    /\ Len(invoked) = 2

\* what accumulate has added up after the first k invocations
RECURSIVE SumTo(_, _)
SumTo(inv, k) == IF k = 0 THEN 0 ELSE SumTo(inv, k - 1) + inv[k][2]

\* C12 (state persists, each request is executed once, in order): with calls
\* issued one after the other and no timeout, the server invokes the method for
\* the request at the head of the request slot, once, with its params; the k-th
\* call is the k-th invocation; no call is executed twice; and every call returns
\* the total of its own value and the values of all the calls before it.
C12_StatefulInOrder ==
    /\ [][Handles =>
            /\ pending["request"] # <<>>
            /\ EncodeRequest(srv'.request) = Head(pending["request"])
            /\ invoked' = Append(invoked, <<srv'.request.method, srv'.request.param>>)
            /\ srv'.request.request_id = Len(invoked')
            /\ srv'.totals = SumTo(invoked', Len(invoked'))]_vars
    /\ [](/\ Len(invoked) <= nextId - 1
          /\ srv.totals = SumTo(invoked, Len(invoked))
          /\ \A t \in ClientThreads :
                /\ cl[t].out \in {"none", "result"}
                /\ cl[t].out = "result" =>
                      /\ cl[t].rid <= Len(invoked)
                      /\ cl[t].val = << SumTo(invoked, cl[t].rid) >>
                /\ (cl[t].pc = "idle" /\ cl[t].rid # 0) => cl[t].out = "result"
          /\ (\A t \in ClientThreads : cl[t].pc = "idle") => Len(invoked) = nextId - 1)

\* two clients have called in turn and the second got the total of both values
C12_Witness ==
    /\ ep["b"] = "c2"
    /\ cl["a"].out = "result"
    /\ cl["a"].rid = 1
    /\ cl["a"].val = << 2 >>
    /\ cl["b"].out = "result"
    /\ cl["b"].rid = 2
    /\ cl["b"].val = << 3 >>
    /\ invoked = << <<"accumulate", 2>>, <<"accumulate", 1>> >>

\* ------------------------------------------- properties of the life of a channel

\* thread t has just run op: its record of the last operation is new
Ran(t, op) ==
    /\ th'[t].op = op
    /\ th'[t] # th[t] \/ hnd'[ep[t]] # hnd[ep[t]] \/ owner'[ep[t]] # owner[ep[t]]

\* the creator's transport is constructed: by the server, or by thread a
Creates(t) ==
    /\ t \in {"s", "a"}
    /\ th'[t].op = "create"
    /\ th'[t] # th[t] \/ owner'[ep[t]] # owner[ep[t]] \/ (t = "s" /\ srv' # srv)

\* C13 (creator-only unlinker): a close of an opener, also of one whose open
\* failed and also a repeated one, through the transport or through the client,
\* unlinks nothing and changes no semaphore and no buffer; an open that follows
\* on the existing channel with the creator's size succeeds; and when the creator
\* (a server or a transport) closes, none of the six objects exists any more.
C13_CreatorOnlyUnlinker ==
    /\ [][\A t \in ClientThreads :
            ((Ran(t, "close") \/ Ran(t, "client.close")) /\ ~owner[ep[t]]) =>
               /\ linked' = linked
               /\ hnd'[ep[t]] = {}
               /\ UNCHANGED <<sem, buf>>]_vars
    /\ [][\A t \in ClientThreads :
            (Ran(t, "open") /\ linked = Names /\ bsize'[ep[t]] = Len(buf["request"])) =>
               /\ th'[t].res = "ok"
               /\ hnd'[ep[t]] = Names
               /\ linked' = Names]_vars
    /\ [][\A e \in Endpoints :
            (owner[e] /\ hnd[e] = Names /\ hnd'[e] = {}) => linked' = {}]_vars

\* an opener closed while the server's channel exists, the other client has
\* opened it, and all six objects are there
C13_Witness ==
    /\ th["a"] = Done("close")
    /\ ~owner["c1"]
    /\ client["c1"] = "open"
    /\ hnd["c1"] = {}
    /\ th["b"] = Done("open")
    /\ hnd["c2"] = Names
    /\ srv.transport = "open"
    /\ linked = Names

\* C14 (creating twice fails): a create, by a transport or by a server, under a
\* name whose six objects exist raises RPCTransportError and leaves the channel as
\* it was: nothing unlinked, semaphores and buffers unchanged, the handles of every
\* other instance kept; when it is the transport that fails, the server is
\* unchanged and an INITIALIZED server stays INITIALIZED.
C14_CreateTwiceFails ==
    [][\A t \in {"s", "a"} :
         (Creates(t) /\ linked = Names) =>
            /\ th'[t] = Raised("Transport", "create")
            /\ linked' = Names
            /\ UNCHANGED <<sem, buf, pending>>
            /\ hnd'[ep[t]] = {}
            /\ \A e \in Endpoints \ {ep[t]} : hnd'[e] = hnd[e]
            /\ t = "a" => srv' = srv
            /\ t = "s" => srv'.transport = "None"]_vars

\* a transport create failed against the channel of a server that is INITIALIZED
C14_Witness ==
    /\ th["a"] = Raised("Transport", "create")
    /\ th["s"] = Done("create")
    /\ ServerStatus = "INITIALIZED"
    /\ hnd["srv"] = Names
    /\ linked = Names

\* C15 (partial creation rolls back): when a create fails because one of the six
\* names exists, the names that exist afterwards are exactly those that existed
\* before: what the attempt created is unlinked, what was there is kept; the
\* instance holds nothing and RPCTransportError is raised.
C15_PartialCreateRollsBack ==
    [][\A t \in {"s", "a"} :
         (Creates(t) /\ linked # {}) =>
            /\ th'[t] = Raised("Transport", "create")
            /\ linked' = linked
            /\ hnd'[ep[t]] = {}]_vars

\* a create failed at its last step, on the one object that was there before
C15_Witness ==
    /\ th["a"] = Raised("Transport", "create")
    /\ linked = {"resp_full"}
    /\ Created(linked) = Names \ {"resp_full"}
    /\ hnd["c1"] = {}

\* C16 (opening what does not exist): an open under a name of which not all six
\* objects exist raises RPCTransportError, creates no object and unlinks none,
\* and the instance holds nothing.
C16_OpenMissingFails ==
    [][\A t \in ClientThreads :
         (Ran(t, "open") /\ linked # Names) =>
            /\ th'[t] = Raised("Transport", "open")
            /\ linked' = linked
            /\ hnd'[ep[t]] = {}
            /\ client'[ep[t]] = "none"
            /\ UNCHANGED <<sem, buf>>]_vars

\* a client was constructed with no server and no channel
C16_Witness ==
    /\ th["a"] = Raised("Transport", "open")
    /\ linked = {}
    /\ srv.transport = "None"
    /\ th["s"] = Idle
    /\ client["c1"] = "none"

\* C17 (the opener's buffer_size must be the creator's): an open succeeds only
\* with the buffer_size the segments were created with.
C17_OpenSizeEqual ==
    [][\A t \in ClientThreads :
         (Ran(t, "open") /\ th'[t].res = "ok") => bsize'[ep[t]] = Len(buf["request"])]_vars

\* an opener is attached with a buffer_size smaller than the creator's
C17_Witness ==
    /\ th["a"] = Done("open")
    /\ hnd["c1"] = Names
    /\ bsize["c1"] < Len(buf["request"])
    /\ srv.transport = "open"

\* C18 (close is idempotent): a close of a transport that holds nothing raises
\* nothing and changes nothing, also when another creator has created the name
\* since; a close of a server that is closed raises nothing, leaves the server as
\* it is (not running, no transport, the signal handlers as they are now) and
\* unlinks nothing.
C18_CloseIdempotent ==
    /\ [][\A t \in ClientThreads :
            (Ran(t, "close") /\ hnd[ep[t]] = {}) =>
               /\ th'[t].res = "ok"
               /\ UNCHANGED <<linked, hnd, sem, buf, srv, client>>]_vars
    /\ [][(Ran("s", "server.close") /\ srv.transport = "None" /\ ~srv.started) =>
               /\ th'["s"].res = "ok"
               /\ srv' = srv
               /\ UNCHANGED <<linked, hnd, sem, buf>>]_vars

\* the server was closed, the process installed handlers of its own, and the
\* server was closed again: the handlers are still those of the process
C18_Witness ==
    /\ th["s"] = Done("server.close")
    /\ srv.handler = "other"
    /\ srv.prev = "default"
    /\ ~srv.started
    /\ srv.transport = "None"

\* C19 (Client.close is idempotent): close on a client that is closed raises
\* nothing.
C19_ClientCloseIdempotent ==
    [][\A t \in ClientThreads :
         (Ran(t, "client.close") /\ client[ep[t]] = "closed") => th'[t].res = "ok"]_vars

\* the second close of a client has raised AttributeError
C19_Witness ==
    /\ th["a"] = Raised("AttributeError", "client.close")
    /\ client["c1"] = "closed"

\* thread t calls call() on a closed client
CallsClosed(t) ==
    /\ client[ep[t]] = "closed"
    /\ cl'[t] # cl[t]

\* C20 (call after close): after Client.close, call() fails with the State
\* (already closed) error and sends nothing.
C20_CallAfterCloseState ==
    [][\A t \in ClientThreads :
         CallsClosed(t) =>
            /\ cl'[t].out = "State"
            /\ UNCHANGED <<sem, buf, pending, th>>]_vars

\* a call on a closed client has raised AttributeError, nothing having been sent
C20_Witness ==
    /\ cl["a"].out = "AttributeError"
    /\ client["c1"] = "closed"
    /\ pending["request"] = <<>>

\* ------------------------------------------------- properties of a closed transport

\* thread t calls one of the four operations on an instance that close() has emptied
CallsOnClosed(t) ==
    /\ th[t].pc = "idle"
    /\ hnd[ep[t]] = {}
    /\ th'[t] # th[t]
    /\ th'[t].op \in SendOps \cup RecvOps

\* C21 (operations after close): after close, send_request, receive_request,
\* send_response and receive_response on that instance fail with the State error,
\* and neither wait on nor post a semaphore.
C21_ClosedOpsState ==
    [][\A t \in Movers :
         CallsOnClosed(t) =>
            /\ th'[t].res = "State"
            /\ UNCHANGED <<sem, buf, pending, lock>>]_vars

\* what the operations do on a closed instance: RPCTransportError, and no semaphore
\* is touched
C21_ClosedOpsRaise ==
    [][\A t \in Movers :
         CallsOnClosed(t) =>
            /\ th'[t].res = "Transport"
            /\ th'[t].pc = "idle"
            /\ UNCHANGED <<sem, buf, pending, lock>>]_vars

\* receive_request on the closed creator has raised RPCTransportError out of the
\* failed assert, the semaphores being as they were created
C21_Witness ==
    /\ hnd["srv"] = {}
    /\ hnd["c1"] = Names
    /\ th["s"] = Failed("receive_request", <<>>, "Failed: ")
    /\ sem = FreshSem

\* some thread of the instance e is inside one of the four operations
Inside(e) == lock[e] # NoThread

\* thread t leaves its semaphore wait
LeavesWait(t) == th[t].pc = "wait" /\ th'[t] # th[t]

\* C22 (close during a blocked operation): a close called while another thread of
\* the instance is inside a send or receive neither interrupts it nor closes or
\* unlinks anything before it has finished; a wait ends by the semaphore or, the
\* semaphore staying at zero, by Timeout, and only then does close go ahead.
C22_CloseWaitsForOperation ==
    /\ [][\A e \in Endpoints :
            Inside(e) => /\ hnd'[e] = hnd[e]
                         /\ owner[e] => linked' = linked]_vars
    /\ [][\A t \in Movers :
            LeavesWait(t) =>
               \/ /\ th'[t] = [th[t] EXCEPT !.pc = "copy"]
                  /\ sem[WaitSem(th[t].op)] > 0
               \/ /\ th'[t] = Raised("Timeout", th[t].op)
                  /\ sem[WaitSem(th[t].op)] = 0
                  /\ UNCHANGED <<sem, buf, linked, hnd>>]_vars

\* receive_request has ended with Timeout while the close called by the other thread
\* of the creator is still held up, and nothing was closed or unlinked
C22_Witness ==
    /\ ep["b"] = "srv"
    /\ th["b"].pc = "lock"
    /\ th["s"] = Raised("Timeout", "receive_request")
    /\ hnd["srv"] = Names
    /\ linked = Names

\* thread t, receiving, goes on from a header whose length is more than its
\* buffer_size - 4
ReadsOversize(t) ==
    /\ th[t].pc = "copy"
    /\ th[t].op \in RecvOps
    /\ ReadSize(Mapped(t)) > bsize[ep[t]] - HEADER_SIZE
    /\ th'[t] # th[t]

\* C29 (received size validated): receive_request and receive_response reject a
\* header length above B - 4 with the Transport error "Invalid message size",
\* never Timeout, and return no bytes.
C29_OversizeHeaderRejected ==
    [][\A t \in Movers :
         ReadsOversize(t) =>
            /\ th'[t] = Failed(th[t].op, <<>>, "Failed: Invalid message size")
            /\ UNCHANGED <<sem, buf, pending>>]_vars

\* the same of the instances of _internal/transport.py alone
C29_InternalRejects ==
    [][\A t \in Movers :
         (ReadsOversize(t) /\ impl[ep[t]] = "_internal.transport") =>
            /\ th'[t] = Failed(th[t].op, <<>>, "Failed: Invalid message size")
            /\ UNCHANGED <<sem, buf, pending>>]_vars

\* receive_response of an opener of shm_rpc_bridge/transport.py, opened with one byte
\* less than the creator, has taken the bytes it has room for out of a response
\* longer than its B - 4, and is about to post the empty semaphore
C29_Witness ==
    /\ impl["c1"] = "transport"
    /\ th["a"].pc = "post"
    /\ th["a"].op = "receive_response"
    /\ ReadSize(buf["response"]) > bsize["c1"] - HEADER_SIZE
    /\ Len(th["a"].ret) = bsize["c1"] - HEADER_SIZE

\* ------------------------------------------------- the semaphore pairs

Exits(t) == th'[t] = Done("exit") /\ th'[t] # th[t]

Utility(mode, p) ==
    /\ th'["b"].op = mode
    /\ th'["b"].data = p
    /\ \/ th'["b"] # th["b"]
       \/ /\ th'["a"] = th["a"]
          /\ hnd' = hnd
          /\ linked' # linked \/ other' # other

\* C28 (crash recovery): run with the channel's name as prefix, the cleanup utility
\* unlinks the six objects of the channel and no object of another channel, also
\* not of one whose name starts with the channel's name; a create then succeeds;
\* with --list and with --dry-run it unlinks nothing.
C28_CleanupExactlySix ==
    /\ [][Utility("cleanup", ChannelName) => linked' = {} /\ other' = other]_vars
    /\ [][\A p \in Prefixes :
            (Utility("cleanup --list", p) \/ Utility("cleanup --dry-run", p)) =>
               linked' = linked /\ other' = other]_vars
    /\ [][(Creates("a") /\ linked = {}) => th'["a"] = Done("create") /\ linked' = Names]_vars

\* what the utility does with a prefix: it unlinks every name that starts with it
C28_CleanupByPrefix ==
    /\ [][Utility("cleanup", ChannelName) =>
             /\ linked' = {}
             /\ other' = {x \in other : ~StartsWith(x, ChannelName)}]_vars
    /\ [][\A p \in Prefixes :
            (Utility("cleanup --list", p) \/ Utility("cleanup --dry-run", p)) =>
               linked' = linked /\ other' = other]_vars
    /\ [][(Creates("a") /\ linked = {}) => th'["a"] = Done("create") /\ linked' = Names]_vars

\* run with the channel's name, the utility has reported twelve objects removed: the
\* six of the channel and the six of the channel whose name starts with the same
\* letters; the third channel is untouched
C28_Witness ==
    /\ th["b"].op = "cleanup"
    /\ th["b"].data = ChannelName
    /\ th["b"].ret = <<2 * Cardinality(Names)>>
    /\ linked = {}
    /\ other = ObjectsOf(<<"m">>)

\* ------------------------------------------------- C23: a signal closes the server

\* the signal handler of the server has run in this step
Handled == srv.signal = "pending" /\ srv'.signal = "handled"

\* C23: when SIGTERM or SIGINT reaches the process of the one server, before
\* start() or while the loop is in receive_request, the server's close runs in
\* the handler: after it none of the six objects exists, the server is closed and
\* the handlers saved at construction are back; a sent signal leads to that.
C23_SignalClosesServer ==
    /\ [][Handled => /\ linked' = {}
                     /\ hnd'["srv"] = {}
                     /\ srv'.transport = "None" /\ ~srv'.running
                     /\ srv'.handler = srv.prev /\ ~srv'.started]_vars
    /\ (srv.signal = "pending") ~> (linked = {} /\ srv.handler = srv.prev)

\* the handler has run while the loop was waiting in receive_request
C23_Witness ==
    /\ srv.signal = "handled"
    /\ srv.instart
    /\ th["s"] = InWait("receive_request", <<>>)
    /\ lock["srv"] = "s"
    /\ linked = {}
    /\ srv.handler = "default"

\* ------------------------------------------- C25: INITIALIZED, and CLOSED after close

\* start() is called in this step
StartCalled == ~srv.instart /\ srv'.instart

\* a close() of the server, or the start() that ends with one, returns in this step
CloseEnds ==
    \/ th["b"] # th'["b"] /\ th'["b"] = Done("server.close")
    \/ Handled
    \/ srv.instart /\ ~srv'.instart

\* the constructor of a second server on the same name fails in this step
SecondFailed == srv.handler = "server" /\ srv'.handler = "server2"

FatalError == Alive /\ srv.raised = "none" /\ srv'.raised # "none"

\* C26: a fatal error in the dispatch loop, for instance the Timeout of
\* send_response, puts the server in status ERROR (and only a later close makes
\* it CLOSED).
C26_FatalErrorGivesError == [][FatalError => ServerStatus' = "ERROR"]_vars

\* C26, as the code has it: the exception that leaves start() runs close() on its
\* way out, so the status right after a fatal error is CLOSED, the six names are
\* unlinked and the saved signal handlers are back.
C26_FatalErrorCloses ==
    [][FatalError => /\ ServerStatus' = "CLOSED"
                     /\ ~srv'.instart
                     /\ linked' = {}
                     /\ ~srv'.started]_vars

\* send_response timed out, nobody called close, and the status is CLOSED
C26_Witness ==
    /\ srv.raised = "RPCTimeoutError"
    /\ ServerStatus = "CLOSED"
    /\ th["b"] = Idle
    /\ srv.signal = "none"
    /\ linked = {}

\* ----------------------------------------------- C27: start() after close()

\* start() returns or raises in this step
StartEnds == srv.instart /\ ~srv'.instart

\* C27: after close() was called by another thread at any point of the loop,
\* start() returns normally unless a transport or dispatch error occurred.
C27_CloseEndsStartNormally ==
    [][StartEnds /\ ~srv.running /\ srv.signal # "handled" /\ ~FatalError
          => srv'.raised = "none"]_vars

\* C27, as the code has it: start() ends only when running is false or with an
\* exception; once a close() has set running to false start() ends, the waits
\* being finite; it then returns normally or raises AssertionError or
\* RPCTransportError, the loop having found the transport dropped or closed.
C27_StartEndsAfterClose ==
    /\ [][StartEnds => ~srv.running \/ srv'.raised # "none"]_vars
    /\ [][StartEnds /\ ~FatalError
             => srv'.raised \in {"none", "AssertionError", "RPCTransportError"}]_vars
    /\ (srv.instart /\ ~srv.running) ~> ~srv.instart

\* the other thread closed the server while the loop was between receiving a
\* request and sending its response: start() raised AssertionError
C27_Witness ==
    /\ srv.raised = "AssertionError"
    /\ ~srv.instart
    /\ th["b"] = Done("server.close")
    /\ srv.signal = "none"
    /\ invoked # <<>>
    /\ pending["response"] = <<>>

\* ------------------------------------------------- C31: one holder of a buffer

\* the threads between the wait and the post of an operation on the buffer of d
Holding(d) == Reading(d) \cup Writing(d)

\* C31: mutual exclusion on each buffer. At no time are two threads, of one
\* endpoint or of two, between the wait and the post of an operation on the same
\* buffer; a buffer changes only in a step of the one sender that holds it, while
\* no receiver holds it, and it does not change while a receiver holds it.
C31_MutualExclusion ==
    /\ [](\A d \in Dirs : Cardinality(Holding(d)) <= 1)
    /\ [][\A d \in Dirs :
            buf'[d] # buf[d] =>
                /\ Reading(d) = {}
                /\ \E t \in Threads : Writing(d) = {t} /\ th[t].pc = "copy"
                                      /\ th'[t].pc = "post"]_vars

\* one opener is writing a request while a thread of another opener and the
\* creator both wait for the same slot
C31_Witness ==
    /\ ep["b"] = "c2"
    /\ th["a"].pc = "copy" /\ th["a"].op = "send_request"
    /\ th["b"].pc = "wait" /\ th["b"].op = "send_request"
    /\ th["s"].pc = "wait" /\ th["s"].op = "receive_request"
    /\ buf["request"][HEADER_SIZE + 1] # 0

\* ------------------------------------- C32: a Timeout of receive_request in the loop

\* receive_request of the loop ends in this step without a request, the
\* transport being in order
RecvTimedOut ==
    /\ Alive
    /\ th["s"].pc = "wait" /\ th["s"].op = "receive_request"
    /\ th'["s"].pc = "idle"

\* the loop is at `while self._running`
LoopTop == srv.instart /\ th["s"].pc = "idle"

\* C32: a Timeout of receive_request inside the loop is no error. The step
\* changes nothing of the server (running as before, nothing raised), invokes no
\* method and touches no semaphore or buffer, so no response is sent; from the top
\* of the loop the next thing the server does is read the running flag, and with
\* the flag set it goes on to the next receive_request; a step of the loop
\* clears the flag only by raising an exception, so an idle server is stopped
\* only from outside (close() of another thread or of the signal handler); and
\* the loop, once at its top, gets to the next receive or start() ends.
C32_RecvTimeoutRetries ==
    /\ [][RecvTimedOut => /\ srv' = srv /\ srv.raised = "none"
                          /\ invoked' = invoked
                          /\ sem' = sem /\ buf' = buf /\ pending' = pending
                          /\ th'["s"] = Idle
                          /\ linked' = linked /\ hnd' = hnd]_vars
    /\ [][LoopTop /\ th'["s"] # th["s"] =>
              \/ srv.running /\ th'["s"] = [Idle EXCEPT !.pc = "recv"]
              \/ ~srv.running /\ th'["s"] = Done("start")]_vars
    /\ [][srv.running /\ ~srv'.running /\ th'["s"] # th["s"]
              => srv.raised = "none" /\ srv'.raised # "none"]_vars
    /\ (LoopTop /\ srv.running)
          ~> (th["s"] = InWait("receive_request", <<>>) \/ ~srv.instart)

\* the receive timed out with nobody calling, a client's request arrived
\* afterwards, and the server, still running, is at the top of the loop again
C32_Witness ==
    /\ LoopTop /\ srv.running /\ Alive
    /\ srv.raised = "none"
    /\ lock["srv"] = NoThread
    /\ invoked = <<>>
    /\ sem["req_full"] = 1
    /\ th["b"] = Idle /\ srv.signal = "none"

\* ----------------------------------------------------- C33: every call returns

\* the request whose frame is in the request buffer
RequestInBuffer == DecodeRequest(ReadData(buf["request"], ReadSize(buf["request"])))

\* both slots are EMPTY and nothing is in flight
ChannelAtRest == sem = FreshSem /\ pending = [d \in Dirs |-> <<>>]

\* C33: progress. With the server and a single client taking their steps and no
\* wait expiring, every call that was started returns; when it returns, it
\* returns the result or raises the remote error that the dispatch of its own
\* request gives, under its own request_id, and both slots are EMPTY again
\* (empty = 1, full = 0 in both pairs), as they are whenever the client is
\* outside call().
C33_CallsComplete ==
    /\ [][CallReturns("a") =>
            LET req == RequestInBuffer
                rsp == Dispatch(req)
            IN  /\ req.ok /\ req.request_id = cl["a"].rid
                /\ th["a"].ret = EncodeResponse(rsp)
                /\ cl'["a"].got = cl["a"].rid
                /\ IF rsp.error = "None"
                   THEN cl'["a"].out = "result" /\ cl'["a"].val = rsp.result
                   ELSE cl'["a"].out = "RPCMethodError" /\ cl'["a"].err = rsp.error
                /\ ChannelAtRest']_vars
    /\ [](AtRest("a") => ChannelAtRest)
    /\ \A i \in 1..MaxCalls :
          (cl["a"].pc # "idle" /\ cl["a"].rid = i)
              ~> (cl["a"].pc = "idle" /\ cl["a"].rid = i
                  /\ cl["a"].out \in {"result", "RPCMethodError"})

\* the second call has returned its result after the first raised the remote
\* error, and the channel is as it was created
C33_Witness ==
    /\ cl["a"].pc = "idle" /\ cl["a"].rid = MaxCalls /\ cl["a"].out = "result"
    /\ Len(invoked) = MaxCalls
    /\ invoked[1] = <<"divide", 0>>
    /\ ChannelAtRest
    /\ buf["response"][HEADER_SIZE + 1] = MaxCalls

\* --------------------------------------- C34: calls after a response timeout

\* the client's first call has ended with Timeout; its send found the slot
\* EMPTY, so the wait that expired was that of receive_response
FirstTimedOut == cl["a"].rid = 1 /\ cl["a"].out = "RPCTimeoutError"

\* no call after the first ends with Timeout
NoFurtherTimeout == cl["a"].out = "RPCTimeoutError" => cl["a"].rid = 1

\* call i of the client has ended with a response received
Answered(i) ==
    /\ cl["a"].rid = i /\ cl["a"].pc = "idle"
    /\ cl["a"].out \notin {"none", "RPCTimeoutError"}

\* the call has ended with the result or the remote error of its own request
OwnOutcome(i) == cl["a"].out \in {"result", "RPCMethodError"} /\ cl["a"].got = i

MainInside == lock["srv"] = "s" /\ th["s"].pc \in {"copy", "post"}

\* C35: while the server's thread is between the wait and the post of an
\* operation, the creator's handles are not released and no name is unlinked,
\* also when close() is called by the signal handler on that thread.
C35_LockProtectsFromHandler ==
    [][MainInside => hnd'["srv"] = hnd["srv"] /\ linked' = linked]_vars

\* C35, as the code has it: the lock is reentrant, so the close() of a signal
\* handler that runs while the main thread is inside an operation goes through:
\* all handles are released and the six names unlinked while the thread still
\* holds the lock, and the operation then fails with RPCTransportError without
\* touching a semaphore or a buffer; only the handler can do that, a close() by
\* another thread cannot.
C35_HandlerClosesInside ==
    /\ [][MainInside /\ Handled => /\ hnd'["srv"] = {} /\ linked' = {}
                                   /\ lock' = lock /\ th' = th]_vars
    /\ [][MainInside /\ ~Handled => hnd'["srv"] = hnd["srv"] /\ linked' = linked]_vars
    /\ [][MainInside /\ ~Alive /\ th'["s"] # th["s"] =>
              /\ srv'.raised = "RPCTransportError"
              /\ sem' = sem /\ buf' = buf /\ pending' = pending
              /\ lock'["srv"] = NoThread]_vars

\* the handler has closed the server while the main thread had taken the request
\* semaphore and not yet read the request
C35_Witness ==
    /\ srv.signal = "handled"
    /\ th["s"].pc = "copy" /\ th["s"].op = "receive_request"
    /\ lock["srv"] = "s"
    /\ hnd["srv"] = {} /\ linked = {}
    /\ sem["req_full"] = 0 /\ sem["req_empty"] = 0

\* ------------------------------------------------ C36: the slot after a failed receive

\* a receive of thread t fails in this step after its wait succeeded
RecvFails(t) ==
    /\ th[t].pc = "copy" /\ th[t].op \in RecvOps
    /\ th'[t].res = "Transport"

\* the pair of direction d is at empty = 0, full = 0 and no operation holds the slot
SlotLost(d) == sem[EmptySem(d)] = 0 /\ sem[FullSem(d)] = 0 /\ Holding(d) = {}

\* C36: a failed receive leaves the direction usable. When receive_request or
\* receive_response fails with a Transport error after its wait on the full
\* semaphore succeeded, the empty semaphore is posted or the full semaphore is
\* restored: the pair is not left at empty = 0, full = 0.
C36_FailedReceiveFreesSlot ==
    [][\A t \in Threads :
          RecvFails(t) =>
              LET d == DirOf(th[t].op)
              IN  sem'[EmptySem(d)] = 1 \/ sem'[FullSem(d)] = 1]_vars

\* C36, as the code has it: the failed receive posts nothing and restores
\* nothing. The pair is left at empty = 0, full = 0 with the rejected frame in
\* the buffer, it stays there whatever is called afterwards, and every later send
\* or receive on that direction ends with Timeout.
C36_FailedReceiveLosesSlot ==
    /\ [][\A t \in Threads :
            RecvFails(t) =>
                LET d == DirOf(th[t].op)
                IN  sem' = sem /\ buf' = buf /\ SlotLost(d)']_vars
    /\ [][\A d \in Dirs : SlotLost(d) => SlotLost(d)']_vars
    /\ [][\A d \in Dirs, t \in Threads :
            SlotLost(d) /\ th[t].pc = "wait" /\ DirOf(th[t].op) = d =>
                th'[t] = th[t] \/ th'[t] = Raised("Timeout", th[t].op)]_vars

\* the opener rejected a response, and the creator's next send_response timed out
C36_Witness ==
    /\ th["a"] = Failed("receive_response", <<>>, "Failed: Invalid message size")
    /\ th["s"] = Raised("Timeout", "send_response")
    /\ SlotLost("response")
    /\ hnd["srv"] = Names /\ hnd["c1"] = Names

\* ------------------------------------------------- C37: receive and send alternate

\* receive_request returns bytes that decode to a request
Consumes ==
    /\ th["s"].op = "receive_request"
    /\ th["s"].pc = "post"
    /\ th'["s"] # th["s"]
    /\ DecodeRequest(th["s"].ret).ok

\* the response to the request cannot be encoded, or not framed in the buffer
Unsendable(req) ==
    \/ EncodeFails(Dispatch(req))
    \/ TooLarge(EncodeResponse(Dispatch(req)), bsize["srv"])

\* the server lets go of the request it had consumed
Drops == srv.request # NoRequest /\ srv'.request = NoRequest

\* while the server receives, no consumed request waits for its response
Alternates == th["s"].op = "receive_request" => srv.request = NoRequest

\* the response whose send returns carries the id of the consumed request
AnswersOwnId ==
    Responded => /\ DecodeResponse(th["s"].data).ok
                 /\ DecodeResponse(th["s"].data).request_id = srv.request.request_id

\* C37 as stated (every consumed request is answered, the unsendable ones with an
\* error response, and the loop keeps running): the server never receives while a
\* consumed request is unanswered; a response whose send returns carries the id
\* of the consumed request; a consumed request is let go of only when the send of
\* its response returns; and after consuming any request the server is running
\* and about to send a response with that request's id that fits the buffer,
\* which is an error response when the result could not be encoded or framed.
C37_UnsendableAnsweredWithError ==
    /\ []Alternates
    /\ [][AnswersOwnId]_vars
    /\ [][Drops => Responded]_vars
    /\ [][Consumes =>
            LET req == DecodeRequest(th["s"].ret)
                r == DecodeResponse(th'["s"].data)
            IN  /\ srv'.running
                /\ th'["s"].op = "send_response"
                /\ r.ok
                /\ r.request_id = req.request_id
                /\ ~TooLarge(th'["s"].data, bsize["srv"])
                /\ Unsendable(req) => r.error # "None"]_vars

\* C37 (what the code does): receive and send alternate and a sent response
\* carries the id of the consumed request, but a request whose response cannot
\* be encoded, or is larger than the buffer frames, gets no response at all: the
\* method is invoked, the exception leaves start(), whose close() stops the
\* server and unlinks the channel, and nothing is written or posted.
C37_UnsendableEndsLoop ==
    /\ []Alternates
    /\ [][AnswersOwnId]_vars
    /\ [][Drops =>
            \/ Responded
            \/ /\ th["s"].pc = "ready"
               /\ TooLarge(th["s"].data, bsize["srv"])
               /\ ~srv'.running
               /\ srv'.raised = "RPCTransportError"
               /\ srv'.transport = "None"
               /\ sem' = sem /\ buf' = buf /\ pending' = pending]_vars
    /\ [][Consumes =>
            LET req == DecodeRequest(th["s"].ret)
            IN  IF EncodeFails(Dispatch(req))
                THEN /\ invoked' = invoked \o << <<req.method, req.param>> >>
                     /\ ~srv'.running
                     /\ srv'.raised = "RPCSerializationError"
                     /\ srv'.transport = "None"
                     /\ th'["s"] = Idle
                     /\ buf' = buf
                     /\ sem'["resp_full"] = sem["resp_full"]
                ELSE /\ srv'.running
                     /\ srv'.request = req
                     /\ th'["s"].op = "send_response"
                     /\ th'["s"].data = EncodeResponse(Dispatch(req))]_vars

\* the long text was computed, the server has left start() with
\* RPCTransportError, and the client's call has ended in RPCTimeoutError
C37_Witness ==
    /\ invoked # <<>>
    /\ invoked[Len(invoked)] = <<"echo", 1>>
    /\ srv.raised = "RPCTransportError"
    /\ ~srv.running
    /\ cl["a"].pc = "idle"
    /\ cl["a"].out = "RPCTimeoutError"

\* ------------------------------------------ C38: the status probe and the clients

\* receive_response of the client's call returns
ClientReturns(t) ==
    /\ th[t].op = "receive_response"
    /\ th[t].pc = "post"
    /\ cl[t].rid # ProbeId
    /\ th'[t].pc = "idle"

\* receive_response of the probe returns
ProbeReturns(t) ==
    /\ th[t].op = "receive_response"
    /\ th[t].pc = "post"
    /\ cl[t].rid = ProbeId
    /\ th'[t].pc = "idle"

\* C38 as stated (the probe does not disturb clients): the response a client's
\* call receives is the response to its own request, and the probe reports
\* RUNNING only on the response to its own request.
C38_ProbeDoesNotDisturb ==
    /\ [][ClientReturns("a") =>
            /\ DecodeResponse(th["a"].ret).request_id = cl["a"].rid
            /\ cl'["a"].out \in {"result", "RPCMethodError"}]_vars
    /\ [][ProbeReturns("b") /\ cl'["b"].out = "RUNNING" =>
            DecodeResponse(th["b"].ret).request_id = ProbeId]_vars

\* C38 (what the code does): the probe and the client share the response slot,
\* and whoever waits takes the response that is there. The probe reports RUNNING
\* on every response without an error, its own or the client's; the client
\* receives the response to its request, to the probe's or to an earlier request
\* of its own that the exchange left behind, and on any but its own its call
\* fails with RPCError (response ID mismatch).
C38_ProbeSharesResponseSlot ==
    /\ [][ClientReturns("a") =>
            LET r == DecodeResponse(th["a"].ret)
            IN  /\ r.ok
                /\ r.request_id \in {ProbeId} \cup 1..cl["a"].rid
                /\ r.request_id # cl["a"].rid =>
                     cl'["a"].out = "RPCError" /\ cl'["a"].got = r.request_id
                /\ r.request_id = cl["a"].rid =>
                     cl'["a"].out \in {"result", "RPCMethodError"}]_vars
    /\ [][ProbeReturns("b") =>
            LET r == DecodeResponse(th["b"].ret)
            IN  /\ r.ok
                /\ r.request_id \in {ProbeId} \cup 1..(nextId - 1)
                /\ cl'["b"].out = IF r.error = "None" THEN "RUNNING" ELSE "ERROR"
                /\ hnd'["c2"] = {}]_vars

\* the probe has reported RUNNING on the response to the client's request, and
\* the client's call has failed on the response to the probe's request
C38_Witness ==
    /\ cl["b"].out = "RUNNING"
    /\ cl["b"].got # ProbeId
    /\ cl["b"].got = cl["a"].rid
    /\ cl["a"].pc = "idle"
    /\ cl["a"].out = "RPCError"
    /\ cl["a"].got = ProbeId

\* ------------------------------------ C39: the handlers after two servers are closed

\* the handlers RPCServer objects install
ServerHandlers == {"server", "server2"}

\* neither server holds a transport or has handlers to put back
BothClosed ==
    /\ srv.transport = "None" /\ ~srv.started
    /\ srv.second.transport = "None" /\ ~srv.second.started

\* both servers are constructed and open, the first one first
BothOpen ==
    /\ srv.transport = "open" /\ srv.started /\ srv.prev \notin ServerHandlers
    /\ srv.second.transport = "open" /\ srv.second.started /\ srv.second.prev = "server"

\* close() of the first server puts its saved handlers back
Closes1 == srv.started /\ ~srv'.started

\* close() of the second server puts its saved handlers back
Closes2 == srv.second.started /\ ~srv'.second.started

\* C39 as stated (closing both servers, in either order, restores the handlers):
\* when two servers that were open together are both closed, the installed
\* handlers are those the first server found at its construction, and at no time
\* with both servers closed is a server's handler installed.
C39_BothClosedRestores ==
    /\ [](BothClosed => srv.handler \notin ServerHandlers)
    /\ [][(Closes1 \/ Closes2) /\ srv.second.prev = "server" /\ BothClosed' =>
             srv'.handler = srv.prev]_vars

\* C39 (what the code does): each close() puts back what its own server saved.
\* Closed in the reverse order of construction, the handlers from before the first
\* server are back; closed in the order of construction, the second close()
\* installs the handler of the first server, which is closed, and it stays.
C39_EachCloseRestoresItsOwn ==
    /\ [][Closes1 => srv'.handler = srv.prev]_vars
    /\ [][Closes2 => srv'.handler = srv.second.prev]_vars
    /\ [][BothOpen /\ Closes2 => srv'.handler = "server"]_vars
    /\ [][BothOpen /\ Closes1 => srv'.handler = srv.prev /\ srv'.second.prev = "server"]_vars
    /\ [](BothClosed /\ srv.handler = "server" => srv.second.prev = "server")

\* both servers are closed, the first one first: the handler of the first server
\* is installed
C39_Witness ==
    /\ BothClosed
    /\ srv.prev = "default"
    /\ srv.second.prev = "server"
    /\ srv.handler = "server"

\* ------------------------------------------- C40: channel generations do not mix

\* the server creates the channel anew
Renews == srv.transport = "None" /\ srv'.transport = "open"

\* the frames of a queue
Frames(q) == {q[i] : i \in 1..Len(q)}

\* the server copies a request out of the request segment
ServerReads ==
    /\ th["s"].op = "receive_request"
    /\ th["s"].pc = "copy"
    /\ th'["s"].pc = "post"

\* thread t, holding the previous objects, copies a response out
OldReads(t) ==
    /\ Att(t)
    /\ th[t].op = "receive_response"
    /\ th[t].pc = "copy"
    /\ th'[t].pc = "post"

\* the request of the call of thread t went to the previous objects and is still
\* there, or is still to be sent
NotServed(t) ==
    \/ th[t].op = "send_request"
    \/ \E f \in Frames(old.pending["request"]) : f[1] = cl[t].rid

\* the call of thread t, which holds the previous objects, ends
CallEndsOld(t) == Att(t) /\ cl[t].pc # "idle" /\ cl'[t].pc = "idle"

====
